---------------------------- MODULE Spec2Model ----------------------------
(***************************************************************************)
(* A model of the read path and table format core of LevelDB:              *)
(*   - DBIter            (src/db/db_iter.cc)                               *)
(*   - MergingIterator   (src/table/merger.cc)                             *)
(*   - TableBuilder      (src/table/table_builder.cc)                      *)
(*   - FilterBlock       (src/table/filter_block.cc)                       *)
(*   - Table             (src/table/table.cc)                              *)
(*   - TwoLevelIterator  (src/table/two_level_iterator.cc)                 *)
(* Every component has a specification of its own (SpecDBIter, ...); the   *)
(* variables of the components a specification does not drive stay at an   *)
(* idle value.                                                             *)
(***************************************************************************)
EXTENDS Integers, Sequences, FiniteSets, TLC

VARIABLES
    \* ---- DBIter ----
    entries,      \* the internal entry stream under iter_, in internal-key order
    sequence_,    \* DBIter::sequence_, the snapshot
    dbi,          \* the DBIter over entries
    dbiBase,      \* a second DBIter, over the entries with sequence <= sequence_ only
    dbOp,         \* the last operation called on the DBIter(s)
    scan,         \* "fwd": SeekToFirst then only Next so far; "rev": SeekToLast then only Prev
    out,          \* the (key, value) pairs the running scan has produced
    fwdDone,      \* the result of a completed forward scan
    revDone,      \* the result of a completed reverse scan
    vcur,         \* a cursor over the visible pairs, moved by the same calls; 0 when invalid
    \* ---- MergingIterator ----
    children_,    \* the children: each a sorted list of [key, value]
    childPos,     \* the position of every child iterator, 0 when not Valid()
    current_,     \* MergingIterator::current_: a child's index, 0 for nullptr
    direction_,   \* MergingIterator::direction_
    cursor,       \* a cursor over the merged list, moved by the same calls; 0 when invalid
    mOp,          \* the last operation called on the merging iterator
    mscan,        \* <<"fwd", t>>: Seek(t) (SeekToFirst: t = 0), then only Next so far
    mout,         \* the entries the running forward scan has yielded
    \* ---- TableBuilder, Table, TwoLevelIterator ----
    w,            \* the TableBuilder: the fields of Rep, and its file
    env,          \* the environment: when the file starts failing, how well Snappy compresses
    added,        \* the (key, value) pairs Add accepted
    blocks,       \* the data blocks written: [offset, entries]
    finishStatus, \* what Finish returned
    table,        \* the Table that Table::Open made of the file
    titer,        \* the TwoLevelIterator of Table::NewIterator
    tseen,        \* the (key, value) pairs the iterator has stood on since SeekToFirst
    got,          \* the last Table::InternalGet: [k, status, calls]
    tOp,          \* the last operation called on the builder or the table
    approx,       \* the last Table::ApproximateOffsetOf: [key, result]
    \* ---- MergingIterator::status ----
    childStatus,  \* the status() of every child
    \* ---- TableBuilder::WriteBlock, one block ----
    stored,       \* a block to store: its sizes, the settings, and the type byte written
    \* ---- Table::BlockReader and the block cache ----
    cache_,       \* the block cache: the blocks it holds, by (cache_id, offset) key
    btables,      \* the tables opened over the cache, each with its file and cache_id
    heap,         \* every Block object made: who owns it, handles taken and released, deletions
    biters,       \* the live iterators BlockReader returned, each with its cleanup
    bOp,          \* the last operation on the block reader
    \* ---- TwoLevelIterator over an index whose blocks may be empty or fail ----
    tlTable,      \* the index: [index_block |-> the index entries]
    tlFile,       \* the file the block function reads the data blocks from
    tl,           \* the TwoLevelIterator
    tlCursor,     \* a cursor over the concatenation of the blocks, moved by the same calls
    tlOp,         \* the last operation called, with what the iterator held before it
    tlFirst,      \* the first non-ok status an index or data iterator has had
    \* ---- FilterBlockReader over given contents ----
    freader,      \* the FilterBlockReader, and the contents it was made of
    fquery,       \* the last KeyMayMatch: [block_offset, key, result]
    \* ---- DBIter, its read sampling and its loops step by step ----
    sampler,      \* bytes_until_read_sampling_ and the last ParseKey with its samples
    run           \* a DBIter call in progress: where it is and its locals

dbVars == <<entries, sequence_, dbi, dbiBase, dbOp, scan, out, fwdDone, revDone, vcur>>

mVars == <<children_, childPos, current_, direction_, cursor, mOp, mscan, mout>>

tVars == <<w, env, added, blocks, finishStatus, table, titer, tseen, got, tOp>>

twoVars == <<tlTable, tlFile, tl, tlCursor, tlOp, tlFirst>>

filterVars == <<freader, fquery>>

stepVars == <<sampler, run>>

xVars == <<approx, childStatus, stored, cache_, btables, heap, biters, bOp, twoVars, filterVars, stepVars>>

vars == <<dbVars, mVars, tVars, xVars>>

(***************************************************************************)
(* Bounds of the model.                                                    *)
(***************************************************************************)
MaxUserKey == 2     \* user keys are the empty string and the one-byte strings <<1>> .. <<MaxUserKey>>
MaxSequence == 3    \* sequence numbers 1 .. MaxSequence, snapshots 0 .. MaxSequence
MaxEntries == 3     \* internal entries in the stream
MaxChildren == 2    \* children of a merging iterator: 2 .. MaxChildren
MaxMergeKey == 3    \* keys of the children's entries: 1 .. MaxMergeKey
MaxTableKey == 3    \* keys given to a TableBuilder: 1 .. MaxTableKey
KeyBytes == 4       \* the length of a table key

(***************************************************************************)
(* Helpers.                                                                *)
(***************************************************************************)
Min(a, b) == IF a <= b THEN a ELSE b

Reverse(s) == [i \in 1..Len(s) |-> s[Len(s) + 1 - i]]

IsPrefix(s, t) == Len(s) <= Len(t) /\ s = SubSeq(t, 1, Len(s))

(***************************************************************************)
(* The idle values of the components a specification does not drive.       *)
(***************************************************************************)
IdleDBIter ==
    /\ entries = << >> /\ sequence_ = 0 /\ dbi = << >> /\ dbiBase = << >>
    /\ dbOp = <<"idle">> /\ scan = "none" /\ out = << >>
    /\ fwdDone = << >> /\ revDone = << >> /\ vcur = 0

IdleMerger ==
    /\ children_ = << >> /\ childPos = << >> /\ current_ = 0
    /\ direction_ = "kForward" /\ cursor = 0 /\ mOp = <<"idle">>
    /\ mscan = <<"none">> /\ mout = << >>

IdleTable ==
    /\ w = << >> /\ env = << >> /\ added = << >> /\ blocks = << >>
    /\ finishStatus = <<"none">> /\ table = << >> /\ titer = << >> /\ tseen = << >>
    /\ got = << >> /\ tOp = <<"idle">>

IdleApprox == approx = << >>

IdleChildStatus == childStatus = << >>

IdleStored == stored = << >>

IdleBlockCache ==
    cache_ = << >> /\ btables = << >> /\ heap = << >> /\ biters = << >> /\ bOp = <<"idle">>

IdleTwoLevel ==
    /\ tlTable = << >> /\ tlFile = << >> /\ tl = << >> /\ tlCursor = 0
    /\ tlOp = <<"idle">> /\ tlFirst = <<"idle">>

IdleFilter == freader = << >> /\ fquery = << >>

IdleSteps == sampler = << >> /\ run = << >>

IdleExtra ==
    IdleApprox /\ IdleChildStatus /\ IdleStored /\ IdleBlockCache /\ IdleTwoLevel /\ IdleFilter /\
    IdleSteps

(***************************************************************************)
(* Keys of the DB layer.  A user key is a byte string; the user comparator *)
(* is the bytewise one.  An internal key is the user key followed by the   *)
(* packed (sequence << 8 | type) tag.                                      *)
(***************************************************************************)
kTypeDeletion == 0
kTypeValue == 1
kValueTypeForSeek == 1

UserKeys == {<< >>} \cup {<<b>> : b \in 1..MaxUserKey}

\* Comparator::Compare of the bytewise user comparator: <0, 0, >0.
RECURSIVE Compare(_, _)
Compare(a, b) ==
    IF Len(a) = 0 \/ Len(b) = 0
    THEN (IF Len(a) < Len(b) THEN -1 ELSE IF Len(a) > Len(b) THEN 1 ELSE 0)
    ELSE IF a[1] < b[1] THEN -1
    ELSE IF a[1] > b[1] THEN 1
    ELSE Compare(Tail(a), Tail(b))

\* The 8-byte tag of an internal key.
PackSequenceAndType(seq, t) == seq * 256 + t

\* InternalKeyComparator::Compare: user key ascending, then tag descending.
InternalCompare(ukeyA, tagA, ukeyB, tagB) ==
    LET r == Compare(ukeyA, ukeyB)
    IN  IF r # 0 THEN r
        ELSE IF tagA > tagB THEN -1
        ELSE IF tagA < tagB THEN 1
        ELSE 0

EntryTag(e) == PackSequenceAndType(e.seq, e.type)

EntryLess(e, f) == InternalCompare(e.ukey, EntryTag(e), f.ukey, EntryTag(f)) < 0

\* The sequence holding the entries of the set es in internal-key order.
RECURSIVE SortEntries(_)
SortEntries(es) ==
    IF es = {} THEN << >>
    ELSE LET m == CHOOSE e \in es : \A f \in es \ {e} : EntryLess(e, f)
         IN  <<m>> \o SortEntries(es \ {m})

(***************************************************************************)
(* The internal iterator iter_ of a DBIter: a cursor over an entry stream. *)
(* Position 0 is "not Valid()".                                            *)
(***************************************************************************)
IterValid(E, p) == p \in 1..Len(E)

IterSeekToFirst(E) == IF Len(E) > 0 THEN 1 ELSE 0

IterSeekToLast(E) == Len(E)

IterNext(E, p) == IF p < Len(E) THEN p + 1 ELSE 0

IterPrev(E, p) == p - 1

\* Seek: the first entry whose internal key is >= (ukey, tag).
IterSeek(E, ukey, tag) ==
    LET geq == {i \in 1..Len(E) :
                   InternalCompare(E[i].ukey, EntryTag(E[i]), ukey, tag) >= 0}
    IN  IF geq = {} THEN 0 ELSE CHOOSE i \in geq : \A j \in geq : i <= j

(***************************************************************************)
(* DBIter (src/db/db_iter.cc).  The operations are functions from the      *)
(* iterator's fields, the stream E and the snapshot S to the fields after  *)
(* the call.                                                               *)
(***************************************************************************)
NewDBIter ==
    [pos |-> 0, direction |-> "kForward", valid |-> FALSE,
     saved_key |-> << >>, saved_value |-> << >>, status |-> "ok"]

\* ParseInternalKey: fails on a type byte above kTypeValue.
ParseInternalKey(e) == e.type <= kTypeValue

\* DBIter::ParseKey: the fields after the call (status_ records a corruption).
ParseKey(d, e) ==
    IF ~ParseInternalKey(e) THEN [d EXCEPT !.status = "Corruption"] ELSE d

\* The test both collapsing loops make of an entry: it parses and its sequence
\* is not above the snapshot.
EntrySeen_IgnoreSnapshot(e, S) == ParseInternalKey(e)

EntrySeen(e, S) == ParseInternalKey(e) /\ e.seq <= S

\* Whether FindNextUserEntry hides a Value entry with user key ukey.
EntryHidden_NoSkip(skipping, ukey, skip) == FALSE

EntryHidden(skipping, ukey, skip) == skipping /\ Compare(ukey, skip) <= 0

\* The break of FindPrevUserEntry: a value is saved and the entry belongs to
\* a smaller user key.
ReachedPreviousKey_SameKey(value_type, ukey, saved_key) ==
    value_type # kTypeDeletion /\ Compare(ukey, saved_key) <= 0

ReachedPreviousKey(value_type, ukey, saved_key) ==
    value_type # kTypeDeletion /\ Compare(ukey, saved_key) < 0

\* DBIter::FindNextUserEntry(skipping, &saved_key_): skip is saved_key_ itself.
RECURSIVE FindNextUserEntry(_, _, _, _)
FindNextUserEntry(E, S, d, skipping) ==
    LET e == E[d.pos]
        d1 == ParseKey(d, e)
        seen == EntrySeen(e, S)
    IN  IF seen /\ e.type = kTypeValue /\ ~EntryHidden(skipping, e.ukey, d1.saved_key)
        THEN [d1 EXCEPT !.valid = TRUE, !.saved_key = << >>]
        ELSE LET isDel == seen /\ e.type = kTypeDeletion
                 d2 == IF isDel THEN [d1 EXCEPT !.saved_key = e.ukey] ELSE d1
                 d3 == [d2 EXCEPT !.pos = IterNext(E, d.pos)]
             IN  IF IterValid(E, d3.pos)
                 THEN FindNextUserEntry(E, S, d3, skipping \/ isDel)
                 ELSE [d3 EXCEPT !.saved_key = << >>, !.valid = FALSE]

\* The loop of DBIter::FindPrevUserEntry; value_type is the local variable.
RECURSIVE FindPrevLoop(_, _, _, _)
FindPrevLoop(E, S, d, value_type) ==
    LET e == E[d.pos]
        d1 == ParseKey(d, e)
        seen == EntrySeen(e, S)
    IN  IF seen /\ ReachedPreviousKey(value_type, e.ukey, d1.saved_key)
        THEN [d |-> d1, value_type |-> value_type]
        ELSE LET d2 == IF ~seen THEN d1
                       ELSE IF e.type = kTypeDeletion
                       THEN [d1 EXCEPT !.saved_key = << >>, !.saved_value = << >>]
                       ELSE [d1 EXCEPT !.saved_key = e.ukey, !.saved_value = e.value]
                 vt == IF seen THEN e.type ELSE value_type
                 d3 == [d2 EXCEPT !.pos = IterPrev(E, d.pos)]
             IN  IF IterValid(E, d3.pos)
                 THEN FindPrevLoop(E, S, d3, vt)
                 ELSE [d |-> d3, value_type |-> vt]

\* DBIter::FindPrevUserEntry.
FindPrevUserEntry_StepPast(E, S, d) ==
    LET r == IF IterValid(E, d.pos) THEN FindPrevLoop(E, S, d, kTypeDeletion)
             ELSE [d |-> d, value_type |-> kTypeDeletion]
    IN  IF r.value_type = kTypeDeletion
        THEN [r.d EXCEPT !.valid = FALSE, !.saved_key = << >>,
                         !.saved_value = << >>, !.direction = "kForward"]
        ELSE [r.d EXCEPT !.valid = TRUE,
                         !.pos = IF IterValid(E, r.d.pos) THEN IterPrev(E, r.d.pos) ELSE 0]

FindPrevUserEntry(E, S, d) ==
    LET r == IF IterValid(E, d.pos) THEN FindPrevLoop(E, S, d, kTypeDeletion)
             ELSE [d |-> d, value_type |-> kTypeDeletion]
    IN  IF r.value_type = kTypeDeletion
        THEN [r.d EXCEPT !.valid = FALSE, !.saved_key = << >>,
                         !.saved_value = << >>, !.direction = "kForward"]
        ELSE [r.d EXCEPT !.valid = TRUE]

\* DBIter::Next.  REQUIRES d.valid.
DBIterNext_KeepReverse(E, S, d) ==
    IF d.direction = "kReverse"
    THEN LET p == IF ~IterValid(E, d.pos) THEN IterSeekToFirst(E)
                  ELSE IterNext(E, d.pos)
         IN  IF ~IterValid(E, p)
             THEN [d EXCEPT !.pos = p, !.valid = FALSE, !.saved_key = << >>]
             ELSE FindNextUserEntry(E, S, [d EXCEPT !.pos = p], TRUE)
    ELSE LET p == IterNext(E, d.pos)
             d1 == [d EXCEPT !.saved_key = E[d.pos].ukey, !.pos = p]
         IN  IF ~IterValid(E, p)
             THEN [d1 EXCEPT !.valid = FALSE, !.saved_key = << >>]
             ELSE FindNextUserEntry(E, S, d1, TRUE)

DBIterNext(E, S, d) ==
    IF d.direction = "kReverse"
    THEN LET p == IF ~IterValid(E, d.pos) THEN IterSeekToFirst(E)
                  ELSE IterNext(E, d.pos)
             d1 == [d EXCEPT !.direction = "kForward", !.pos = p]
         IN  IF ~IterValid(E, p)
             THEN [d1 EXCEPT !.valid = FALSE, !.saved_key = << >>]
             ELSE FindNextUserEntry(E, S, d1, TRUE)
    ELSE LET p == IterNext(E, d.pos)
             d1 == [d EXCEPT !.saved_key = E[d.pos].ukey, !.pos = p]
         IN  IF ~IterValid(E, p)
             THEN [d1 EXCEPT !.valid = FALSE, !.saved_key = << >>]
             ELSE FindNextUserEntry(E, S, d1, TRUE)

\* The backward scan of DBIter::Prev in forward direction: the position of
\* the first entry met whose user key is below saved_key, 0 if there is none.
RECURSIVE PrevScan(_, _, _)
PrevScan(E, p, saved_key) ==
    LET q == IterPrev(E, p)
    IN  IF ~IterValid(E, q) THEN 0
        ELSE IF Compare(E[q].ukey, saved_key) < 0 THEN q
        ELSE PrevScan(E, q, saved_key)

\* DBIter::Prev.  REQUIRES d.valid.
DBIterPrev_NoSwitch(E, S, d) ==
    FindPrevUserEntry(E, S, [d EXCEPT !.direction = "kReverse"])

DBIterPrev(E, S, d) ==
    IF d.direction = "kForward"
    THEN LET k == E[d.pos].ukey
             q == PrevScan(E, d.pos, k)
         IN  IF ~IterValid(E, q)
             THEN [d EXCEPT !.pos = q, !.valid = FALSE, !.saved_key = << >>,
                            !.saved_value = << >>]
             ELSE FindPrevUserEntry(E, S,
                      [d EXCEPT !.pos = q, !.saved_key = k, !.direction = "kReverse"])
    ELSE FindPrevUserEntry(E, S, d)

\* DBIter::Seek(target): saved_key_ holds the internal key of the target.
DBIterSeek_Skipping(E, S, d, target) ==
    LET tag == PackSequenceAndType(S, kValueTypeForSeek)
        p == IterSeek(E, target, tag)
        d1 == [d EXCEPT !.direction = "kForward", !.saved_value = << >>,
                        !.saved_key = target \o <<tag>>, !.pos = p]
    IN  IF IterValid(E, p) THEN FindNextUserEntry(E, S, d1, TRUE)
        ELSE [d1 EXCEPT !.valid = FALSE]

DBIterSeek(E, S, d, target) ==
    LET tag == PackSequenceAndType(S, kValueTypeForSeek)
        p == IterSeek(E, target, tag)
        d1 == [d EXCEPT !.direction = "kForward", !.saved_value = << >>,
                        !.saved_key = target \o <<tag>>, !.pos = p]
    IN  IF IterValid(E, p) THEN FindNextUserEntry(E, S, d1, FALSE)
        ELSE [d1 EXCEPT !.valid = FALSE]

\* DBIter::SeekToFirst.
DBIterSeekToFirst(E, S, d) ==
    LET p == IterSeekToFirst(E)
        d1 == [d EXCEPT !.direction = "kForward", !.saved_value = << >>, !.pos = p]
    IN  IF IterValid(E, p) THEN FindNextUserEntry(E, S, d1, FALSE)
        ELSE [d1 EXCEPT !.valid = FALSE]

\* DBIter::SeekToLast.
DBIterSeekToLast(E, S, d) ==
    FindPrevUserEntry(E, S,
        [d EXCEPT !.direction = "kReverse", !.saved_value = << >>,
                  !.pos = IterSeekToLast(E)])

\* DBIter::key() and DBIter::value().  REQUIRE d.valid.
DBIterKey(E, d) == IF d.direction = "kForward" THEN E[d.pos].ukey ELSE d.saved_key

DBIterValue(E, d) == IF d.direction = "kForward" THEN E[d.pos].value ELSE d.saved_value

\* DBIter::status(); the internal iterator of the model never fails.
DBIterStatus(d) == d.status

(***************************************************************************)
(* What a reader at snapshot S is to see, stated from the entries alone.   *)
(***************************************************************************)
\* The entries of user key k a reader at snapshot S may see.
SeenEntries(E, S, k) == {i \in 1..Len(E) : E[i].ukey = k /\ E[i].seq <= S}

\* The newest of them (the stream holds the newer entry of a key first).
NewestSeen(E, S, k) == CHOOSE i \in SeenEntries(E, S, k) : \A j \in SeenEntries(E, S, k) : i <= j

\* User key k is visible at S: its newest entry with sequence <= S is a Value.
IsVisible(E, S, k) ==
    SeenEntries(E, S, k) # {} /\ E[NewestSeen(E, S, k)].type = kTypeValue

VisibleKeys(E, S) == {k \in UserKeys : IsVisible(E, S, k)}

\* The visible (key, value) pairs in ascending user-key order.
RECURSIVE VisibleFrom(_, _, _)
VisibleFrom(E, S, ks) ==
    IF ks = {} THEN << >>
    ELSE LET k == CHOOSE a \in ks : \A b \in ks : Compare(a, b) <= 0
         IN  <<[key |-> k, value |-> E[NewestSeen(E, S, k)].value]>>
                 \o VisibleFrom(E, S, ks \ {k})

Visible(E, S) == VisibleFrom(E, S, VisibleKeys(E, S))

(***************************************************************************)
(* The DBIter specification: one stream and one snapshot, chosen at the    *)
(* start, and any sequence of calls on a DBIter over it.  The same calls   *)
(* go to a second DBIter over the stream without the entries newer than    *)
(* the snapshot.                                                           *)
(***************************************************************************)
EntryPairs == UserKeys \X (1..MaxSequence)

\* The streams: entries with distinct (user key, sequence), in internal-key order.
Streams ==
    UNION {{SortEntries({[ukey |-> p[1], seq |-> p[2], type |-> ty[p],
                          value |-> <<"v", p[1], p[2]>>] : p \in P}) :
               ty \in [P -> {kTypeDeletion, kTypeValue}]} :
           P \in {Q \in SUBSET EntryPairs : Cardinality(Q) <= MaxEntries}}

\* The entries a snapshot can see.
BaseEntries == SelectSeq(entries, LAMBDA e : e.seq <= sequence_)

NoScan == [done |-> FALSE, out |-> << >>]

InitDBIter ==
    /\ entries \in Streams
    /\ sequence_ \in 0..MaxSequence
    /\ dbi = NewDBIter
    /\ dbiBase = NewDBIter
    /\ dbOp = <<"new">>
    /\ scan = "none"
    /\ out = << >>
    /\ fwdDone = NoScan
    /\ revDone = NoScan
    /\ vcur = 0
    /\ IdleMerger
    /\ IdleTable
    /\ IdleExtra

\* The cursor over the sorted list L of visible pairs: the position of the
\* smallest user key >= target, 0 when there is none.
VisibleSeek(L, target) ==
    LET geq == {i \in 1..Len(L) : Compare(L[i].key, target) >= 0}
    IN  IF geq = {} THEN 0 ELSE CHOOSE i \in geq : \A j \in geq : i <= j

VisibleNext(L, p) == IF p < Len(L) THEN p + 1 ELSE 0

VisiblePrev(L, p) == p - 1

\* The pair the iterator d over E exposes.
Exposed(E, d) == [key |-> DBIterKey(E, d), value |-> DBIterValue(E, d)]

\* The bookkeeping of a call that leaves the iterator as d: mode is the scan
\* the call starts or continues ("none" when it breaks the running scan) and
\* acc what that scan had produced before the call.
Observe(d, mode, acc) ==
    /\ scan' = mode
    /\ out' = IF mode = "none" THEN << >>
              ELSE IF d.valid THEN acc \o <<Exposed(entries, d)>> ELSE acc
    /\ fwdDone' = IF mode = "fwd" /\ ~d.valid THEN [done |-> TRUE, out |-> out']
                  ELSE fwdDone
    /\ revDone' = IF mode = "rev" /\ ~d.valid THEN [done |-> TRUE, out |-> out']
                  ELSE revDone

DBSeekToFirst ==
    /\ dbi' = DBIterSeekToFirst(entries, sequence_, dbi)
    /\ dbiBase' = DBIterSeekToFirst(BaseEntries, sequence_, dbiBase)
    /\ dbOp' = <<"SeekToFirst">>
    /\ vcur' = (IF Len(Visible(entries, sequence_)) > 0 THEN 1 ELSE 0)
    /\ Observe(dbi', "fwd", << >>)
    /\ UNCHANGED <<entries, sequence_, mVars, tVars, xVars>>

DBSeekToLast ==
    /\ dbi' = DBIterSeekToLast(entries, sequence_, dbi)
    /\ dbiBase' = DBIterSeekToLast(BaseEntries, sequence_, dbiBase)
    /\ dbOp' = <<"SeekToLast">>
    /\ vcur' = Len(Visible(entries, sequence_))
    /\ Observe(dbi', "rev", << >>)
    /\ UNCHANGED <<entries, sequence_, mVars, tVars, xVars>>

DBSeek ==
    \E target \in UserKeys :
        /\ dbi' = DBIterSeek(entries, sequence_, dbi, target)
        /\ dbiBase' = DBIterSeek(BaseEntries, sequence_, dbiBase, target)
        /\ dbOp' = <<"Seek", target>>
        /\ vcur' = VisibleSeek(Visible(entries, sequence_), target)
        /\ Observe(dbi', "none", << >>)
        /\ UNCHANGED <<entries, sequence_, mVars, tVars, xVars>>

\* Next and Prev are called while Valid() only; the second iterator gets the
\* call when it is valid too (an invalid one stays as it is).
DBNext ==
    /\ dbi.valid
    /\ dbi' = DBIterNext(entries, sequence_, dbi)
    /\ dbiBase' = IF dbiBase.valid THEN DBIterNext(BaseEntries, sequence_, dbiBase)
                  ELSE dbiBase
    /\ dbOp' = <<"Next">>
    /\ vcur' = (IF vcur # 0 THEN VisibleNext(Visible(entries, sequence_), vcur) ELSE 0)
    /\ Observe(dbi', IF scan = "fwd" THEN "fwd" ELSE "none", out)
    /\ UNCHANGED <<entries, sequence_, mVars, tVars, xVars>>

DBPrev ==
    /\ dbi.valid
    /\ dbi' = DBIterPrev(entries, sequence_, dbi)
    /\ dbiBase' = IF dbiBase.valid THEN DBIterPrev(BaseEntries, sequence_, dbiBase)
                  ELSE dbiBase
    /\ dbOp' = <<"Prev">>
    /\ vcur' = (IF vcur # 0 THEN VisiblePrev(Visible(entries, sequence_), vcur) ELSE 0)
    /\ Observe(dbi', IF scan = "rev" THEN "rev" ELSE "none", out)
    /\ UNCHANGED <<entries, sequence_, mVars, tVars, xVars>>

NextDBIter == DBSeekToFirst \/ DBSeekToLast \/ DBSeek \/ DBNext \/ DBPrev

SpecDBIter == InitDBIter /\ [][NextDBIter]_vars

(***************************************************************************)
(* Claims about DBIter.                                                    *)
(***************************************************************************)
\* Some user key has entries the snapshot sees and is not visible.
SomeKeyDeleted == \E k \in UserKeys : SeenEntries(entries, sequence_, k) # {}
                                        /\ ~IsVisible(entries, sequence_, k)

\* Some entry is newer than the snapshot.
SomeEntryNewer == \E i \in 1..Len(entries) : entries[i].seq > sequence_

\* C1: SeekToFirst followed by Next until Valid() is false yields, in
\* ascending user-key order, exactly the pair (k, v) of every user key k whose
\* newest entry with sequence <= snapshot is a Value with value v, and nothing
\* else; while the scan runs it has yielded a non-empty prefix of that list.
C1_SnapshotForwardScan ==
    scan = "fwd" =>
        IF dbi.valid
        THEN Len(out) >= 1 /\ IsPrefix(out, Visible(entries, sequence_))
        ELSE out = Visible(entries, sequence_)

C1_Witness ==
    /\ scan = "fwd" /\ ~dbi.valid /\ dbOp = <<"Next">>
    /\ Len(out) >= 1
    /\ SomeKeyDeleted
    /\ SomeEntryNewer

\* C2: the pairs of a completed SeekToFirst/Next scan are the reverse of the
\* pairs of a completed SeekToLast/Prev scan of the same stream and snapshot.
C2_ForwardReverseEquivalence ==
    (fwdDone.done /\ revDone.done) => revDone.out = Reverse(fwdDone.out)

C2_Witness ==
    /\ fwdDone.done /\ revDone.done
    /\ Len(revDone.out) >= 2
    /\ SomeKeyDeleted

\* C3: after Seek(K) the iterator is valid exactly if some user key >= K is
\* visible at the snapshot, and key() is then the smallest such key.
C3_SeekLandsOnSmallestVisible ==
    dbOp[1] = "Seek" =>
        LET K == dbOp[2]
            geq == {k \in VisibleKeys(entries, sequence_) : Compare(k, K) >= 0}
        IN  /\ dbi.valid <=> geq # {}
            /\ dbi.valid =>
                   /\ DBIterKey(entries, dbi) \in geq
                   /\ \A k \in geq : Compare(DBIterKey(entries, dbi), k) <= 0

C3_Witness ==
    /\ dbOp[1] = "Seek" /\ dbi.valid
    /\ Compare(DBIterKey(entries, dbi), dbOp[2]) > 0
    /\ \E i \in 1..Len(entries) : entries[i].ukey = dbOp[2]

\* C4: a DBIter with snapshot S over a stream and a DBIter with snapshot S
\* over the stream without its entries of sequence > S return the same
\* Valid(), key() and value() after every same sequence of calls.  (Two
\* streams that agree on the entries with sequence <= S both agree with that
\* common part, hence with each other.)
C4_NewerWritesInvisible ==
    /\ dbi.valid = dbiBase.valid
    /\ dbi.valid => Exposed(entries, dbi) = Exposed(BaseEntries, dbiBase)

C4_Witness ==
    /\ dbOp = <<"Prev">> /\ dbi.valid
    /\ \E i \in 1..Len(entries) :
           entries[i].seq > sequence_ /\ entries[i].ukey = DBIterKey(entries, dbi)

\* C21: after any sequence of SeekToFirst, SeekToLast, Seek, Next and Prev
\* (Next and Prev while Valid() only) the DBIter is valid exactly when a
\* cursor moved by the same calls over the sorted list of visible pairs is
\* valid, and key() and value() are then the pair under that cursor; since
\* the cursor returns to its pair after Next then Prev, so does the DBIter.
C21_CursorOverVisible ==
    /\ dbi.valid <=> vcur # 0
    /\ dbi.valid => Exposed(entries, dbi) = Visible(entries, sequence_)[vcur]

\* Prev has stepped back from a later visible pair, over a stream with an
\* entry the snapshot does not see or hides.
C21_Witness ==
    /\ dbOp = <<"Prev">> /\ dbi.valid /\ dbi.direction = "kReverse"
    /\ vcur >= 1 /\ vcur < Len(Visible(entries, sequence_))
    /\ SomeKeyDeleted \/ SomeEntryNewer

\* The last entry of user key k in E, 0 when it has none.
LastEntryOf(E, k) ==
    LET of == {i \in 1..Len(E) : E[i].ukey = k}
    IN  IF of = {} THEN 0 ELSE CHOOSE i \in of : \A j \in of : j <= i

\* C22: in every state where Valid() is true: when direction is forward
\* iter_ is valid and stands on the newest entry the snapshot sees of key(),
\* a Value whose value is value(); when direction is reverse iter_ is invalid
\* or stands on an entry of a user key < key(), every entry after it up to
\* the last entry of key() is an entry of key() or newer than the snapshot,
\* and saved_key/saved_value hold key()/value(), the visible pair of key().
C22_PositionInvariant ==
    dbi.valid =>
        IF dbi.direction = "kForward"
        THEN /\ IterValid(entries, dbi.pos)
             /\ entries[dbi.pos].seq <= sequence_
             /\ entries[dbi.pos].type = kTypeValue
             /\ dbi.pos = NewestSeen(entries, sequence_, entries[dbi.pos].ukey)
             /\ DBIterKey(entries, dbi) = entries[dbi.pos].ukey
             /\ DBIterValue(entries, dbi) = entries[dbi.pos].value
        ELSE /\ dbi.direction = "kReverse"
             /\ IsVisible(entries, sequence_, dbi.saved_key)
             /\ dbi.saved_value = entries[NewestSeen(entries, sequence_, dbi.saved_key)].value
             /\ DBIterKey(entries, dbi) = dbi.saved_key
             /\ DBIterValue(entries, dbi) = dbi.saved_value
             /\ IterValid(entries, dbi.pos) =>
                    Compare(entries[dbi.pos].ukey, dbi.saved_key) < 0
             /\ \A j \in (dbi.pos + 1)..LastEntryOf(entries, dbi.saved_key) :
                    entries[j].ukey = dbi.saved_key \/ entries[j].seq > sequence_

\* Reverse, iter_ valid, with an entry newer than the snapshot of another key
\* between iter_ and the entries of key().
C22_Witness ==
    /\ dbi.valid /\ dbi.direction = "kReverse" /\ IterValid(entries, dbi.pos)
    /\ \E j \in (dbi.pos + 1)..Len(entries) :
           /\ entries[j].seq > sequence_
           /\ entries[j].ukey # dbi.saved_key
           /\ j < LastEntryOf(entries, dbi.saved_key)

\* Between calls a DBIter in reverse direction is valid.
ReverseIsValid == dbi.direction = "kReverse" => dbi.valid

\* A SeekToLast, a Prev, or a Next called in reverse direction that leaves
\* the iterator invalid leaves it in forward direction with no saved key.
InvalidGoesForward ==
    (/\ ~dbi'.valid
     /\ \/ dbOp'[1] \in {"SeekToLast", "Prev"}
        \/ dbOp'[1] = "Next" /\ dbi.direction = "kReverse") =>
        /\ dbi'.direction = "kForward"
        /\ dbi'.saved_key = << >>

\* C36: between operations direction == kReverse implies Valid(): when
\* SeekToLast or Prev leaves the iterator invalid (the start of the data
\* reached, nothing there or nothing visible), and when Next called in
\* reverse direction leaves it invalid, direction is kForward again and
\* saved_key is empty.
C36_ReverseImpliesValid ==
    /\ [](ReverseIsValid)
    /\ [][InvalidGoesForward]_vars

\* Prev has run off the start of data that does hold a visible entry, some
\* of it out of sight: the iterator is invalid and back in forward direction.
C36_Witness ==
    /\ dbOp = <<"Prev">>
    /\ ~dbi.valid
    /\ dbi.direction = "kForward"
    /\ dbi.saved_key = << >>
    /\ Len(Visible(entries, sequence_)) > 0
    /\ SomeKeyDeleted \/ SomeEntryNewer

(***************************************************************************)
(* A child iterator (or a block iterator): a cursor over a list L of       *)
(* [key, value] with strictly increasing keys.  Position 0 is "not         *)
(* Valid()".  Keys of the table layer are numbers, compared as numbers.    *)
(***************************************************************************)
ListSeekToFirst(L) == IF Len(L) > 0 THEN 1 ELSE 0

ListSeekToLast(L) == Len(L)

ListSeek(L, target) ==
    LET geq == {i \in 1..Len(L) : L[i].key >= target}
    IN  IF geq = {} THEN 0 ELSE CHOOSE i \in geq : \A j \in geq : i <= j

ListNext(L, p) == IF p < Len(L) THEN p + 1 ELSE 0

ListPrev(L, p) == p - 1

\* The list of the entries of the set es, by ascending key.
RECURSIVE SortByKey(_)
SortByKey(es) ==
    IF es = {} THEN << >>
    ELSE LET m == CHOOSE e \in es : \A f \in es : e.key <= f.key
         IN  <<m>> \o SortByKey(es \ {m})

(***************************************************************************)
(* MergingIterator (src/table/merger.cc).  C is the list of the children's *)
(* lists, P the list of the children's positions.                          *)
(***************************************************************************)
ChildValid(P, i) == P[i] # 0

ChildKey(C, P, i) == C[i][P[i]].key

\* MergingIterator::FindSmallest: the loop from child i on, smallest so far s.
RECURSIVE FindSmallestFrom(_, _, _, _)
FindSmallestFrom(C, P, i, s) ==
    IF i > Len(C) THEN s
    ELSE IF ChildValid(P, i) /\ (s = 0 \/ ChildKey(C, P, i) < ChildKey(C, P, s))
    THEN FindSmallestFrom(C, P, i + 1, i)
    ELSE FindSmallestFrom(C, P, i + 1, s)

FindSmallest_SkipFirst(C, P) == FindSmallestFrom(C, P, 2, 0)

FindSmallest(C, P) == FindSmallestFrom(C, P, 1, 0)

\* MergingIterator::FindLargest: the loop from child i down, largest so far l.
RECURSIVE FindLargestFrom(_, _, _, _)
FindLargestFrom(C, P, i, l) ==
    IF i < 1 THEN l
    ELSE IF ChildValid(P, i) /\ (l = 0 \/ ChildKey(C, P, i) > ChildKey(C, P, l))
    THEN FindLargestFrom(C, P, i - 1, i)
    ELSE FindLargestFrom(C, P, i - 1, l)

FindLargest(C, P) == FindLargestFrom(C, P, Len(C), 0)

\* Where Next puts a child other than current_ on a switch from kReverse:
\* Seek(key()), and one Next when it lands on key().
PositionAfterKey(L, key) ==
    LET p == ListSeek(L, key)
    IN  IF p # 0 /\ L[p].key = key THEN ListNext(L, p) ELSE p

\* Where Prev puts a child other than current_ on a switch from kForward:
\* Seek(key()), then Prev when valid and SeekToLast when not.
PositionBeforeKey_NoSeekToLast(L, key) ==
    LET p == ListSeek(L, key)
    IN  IF p # 0 THEN ListPrev(L, p) ELSE 0

PositionBeforeKey(L, key) ==
    LET p == ListSeek(L, key)
    IN  IF p # 0 THEN ListPrev(L, p) ELSE ListSeekToLast(L)

\* MergingIterator::Next: the children's positions before FindSmallest.
MergerNextPositions_NoReposition(C, P, cur, dir) ==
    [P EXCEPT ![cur] = ListNext(C[cur], P[cur])]

MergerNextPositions(C, P, cur, dir) ==
    LET key == ChildKey(C, P, cur)
        P1 == IF dir # "kForward"
              THEN [i \in 1..Len(C) |->
                       IF i # cur THEN PositionAfterKey(C[i], key) ELSE P[i]]
              ELSE P
    IN  [P1 EXCEPT ![cur] = ListNext(C[cur], P[cur])]

\* MergingIterator::Prev: the children's positions before FindLargest.
MergerPrevPositions(C, P, cur, dir) ==
    LET key == ChildKey(C, P, cur)
        P1 == IF dir # "kReverse"
              THEN [i \in 1..Len(C) |->
                       IF i # cur THEN PositionBeforeKey(C[i], key) ELSE P[i]]
              ELSE P
    IN  [P1 EXCEPT ![cur] = ListPrev(C[cur], P[cur])]

\* The merged stream: every child's entries in one list sorted by key, the
\* entries of equal key in the order of their children.
Tagged(C) ==
    UNION {{[key |-> C[i][j].key, child |-> i, value |-> C[i][j].value] :
               j \in 1..Len(C[i])} : i \in 1..Len(C)}

RECURSIVE SortMerged(_)
SortMerged(es) ==
    IF es = {} THEN << >>
    ELSE LET m == CHOOSE e \in es : \A f \in es :
                      e.key < f.key \/ (e.key = f.key /\ e.child <= f.child)
         IN  <<m>> \o SortMerged(es \ {m})

Merged == SortMerged(Tagged(children_))

\* The lists a child may hold: strictly increasing keys; the value names the
\* child and the key.
ChildLists(i) ==
    {SortByKey({[key |-> k, value |-> <<"v", i, k>>] : k \in K}) :
        K \in SUBSET (1..MaxMergeKey)}

InitMerger ==
    /\ \E n \in 2..MaxChildren :
           children_ \in {c \in [1..n -> UNION {ChildLists(i) : i \in 1..n}] :
                             \A i \in 1..n : c[i] \in ChildLists(i)}
    /\ childPos = [i \in 1..Len(children_) |-> 0]
    /\ current_ = 0
    /\ direction_ = "kForward"
    /\ cursor = 0
    /\ mOp = <<"new">>
    /\ mscan = <<"none">>
    /\ mout = << >>
    /\ IdleDBIter
    /\ IdleTable
    /\ IdleApprox /\ IdleStored /\ IdleBlockCache /\ IdleTwoLevel /\ IdleFilter
    /\ IdleSteps
    /\ IdleChildStatus

\* What a call that leaves the iterator on child cur with positions P yields.
Yielded(cur, P) == IF cur = 0 THEN << >> ELSE <<children_[cur][P[cur]]>>

MergerSeekToFirst ==
    /\ childPos' = [i \in 1..Len(children_) |-> ListSeekToFirst(children_[i])]
    /\ current_' = FindSmallest(children_, childPos')
    /\ direction_' = "kForward"
    /\ cursor' = ListSeekToFirst(Merged)
    /\ mOp' = <<"SeekToFirst">>
    /\ mscan' = <<"fwd", 0>>
    /\ mout' = Yielded(current_', childPos')
    /\ UNCHANGED <<children_, dbVars, tVars, xVars>>

MergerSeekToLast ==
    /\ childPos' = [i \in 1..Len(children_) |-> ListSeekToLast(children_[i])]
    /\ current_' = FindLargest(children_, childPos')
    /\ direction_' = "kReverse"
    /\ cursor' = ListSeekToLast(Merged)
    /\ mOp' = <<"SeekToLast">>
    /\ mscan' = <<"none">>
    /\ mout' = << >>
    /\ UNCHANGED <<children_, dbVars, tVars, xVars>>

MergerSeek ==
    \E target \in 1..MaxMergeKey :
        /\ childPos' = [i \in 1..Len(children_) |-> ListSeek(children_[i], target)]
        /\ current_' = FindSmallest(children_, childPos')
        /\ direction_' = "kForward"
        /\ cursor' = ListSeek(Merged, target)
        /\ mOp' = <<"Seek", target>>
        /\ mscan' = <<"fwd", target>>
        /\ mout' = Yielded(current_', childPos')
        /\ UNCHANGED <<children_, dbVars, tVars, xVars>>

\* Next and Prev are called while Valid(); the cursor moves when it is valid.
MergerNext ==
    /\ current_ # 0
    /\ childPos' = MergerNextPositions(children_, childPos, current_, direction_)
    /\ current_' = FindSmallest(children_, childPos')
    /\ direction_' = "kForward"
    /\ cursor' = IF cursor # 0 THEN ListNext(Merged, cursor) ELSE 0
    /\ mOp' = <<"Next", direction_>>
    /\ mscan' = mscan
    /\ mout' = IF mscan[1] = "fwd" THEN mout \o Yielded(current_', childPos') ELSE << >>
    /\ UNCHANGED <<children_, dbVars, tVars, xVars>>

MergerPrev ==
    /\ current_ # 0
    /\ childPos' = MergerPrevPositions(children_, childPos, current_, direction_)
    /\ current_' = FindLargest(children_, childPos')
    /\ direction_' = "kReverse"
    /\ cursor' = IF cursor # 0 THEN ListPrev(Merged, cursor) ELSE 0
    /\ mOp' = <<"Prev", direction_>>
    /\ mscan' = <<"none">>
    /\ mout' = << >>
    /\ UNCHANGED <<children_, dbVars, tVars, xVars>>

NextMerger ==
    MergerSeekToFirst \/ MergerSeekToLast \/ MergerSeek \/ MergerNext \/ MergerPrev

SpecMerger == InitMerger /\ [][NextMerger]_vars

\* MergingIterator::Valid, key and value.
MergerValid == current_ # 0

MergerKey == children_[current_][childPos[current_]].key

MergerValue == children_[current_][childPos[current_]].value

(***************************************************************************)
(* Claims about MergingIterator.                                           *)
(***************************************************************************)
\* The merging iterator and the cursor over the merged list agree.
MergerMatchesCursor ==
    /\ MergerValid <=> cursor # 0
    /\ MergerValid => /\ MergerKey = Merged[cursor].key
                      /\ MergerValue = Merged[cursor].value

\* No key occurs in two children.
KeysDistinct ==
    \A i, j \in 1..Len(children_) :
        i # j => \A a \in 1..Len(children_[i]), b \in 1..Len(children_[j]) :
                     children_[i][a].key # children_[j][b].key

\* C5 as stated: after any sequence of SeekToFirst/SeekToLast/Seek, Next and
\* Prev the merging iterator's Valid(), key() and value() are those of a
\* cursor moved by the same calls over the merged list of all children's
\* entries.
C5_MergerEqualsMergedList == MergerMatchesCursor

\* C5 amended: the same, for children no two of which hold the same key.
C5_MergerEqualsMergedListDistinct == KeysDistinct => MergerMatchesCursor

C5_Witness ==
    /\ KeysDistinct
    /\ mOp = <<"Prev", "kForward">>
    /\ MergerValid
    /\ Len(children_) >= 2
    /\ \E i \in 1..Len(children_) : i # current_ /\ childPos[i] # 0

\* The position of the first entry of L above key, 0 when there is none:
\* strictly above, or not below.
FirstAbove(L, key, strict) ==
    LET up == {i \in 1..Len(L) : IF strict THEN L[i].key > key ELSE L[i].key >= key}
    IN  IF up = {} THEN 0 ELSE CHOOSE i \in up : \A j \in up : i <= j

\* The position of the last entry of L below key, 0 when there is none.
LastBelow(L, key, strict) ==
    LET dn == {i \in 1..Len(L) : IF strict THEN L[i].key < key ELSE L[i].key <= key}
    IN  IF dn = {} THEN 0 ELSE CHOOSE i \in dn : \A j \in dn : j <= i

\* Every child other than current_ is invalid or stands on its first entry
\* above key() (forward), on its last entry below key() (reverse).
OthersPositioned(strict) ==
    MergerValid =>
        \A i \in 1..Len(children_) :
            i # current_ =>
                \/ ~ChildValid(childPos, i)
                \/ childPos[i] =
                       IF direction_ = "kForward"
                       THEN FirstAbove(children_[i], MergerKey, strict)
                       ELSE LastBelow(children_[i], MergerKey, strict)

\* An invalid child other than current_ has no entry beyond key() in the
\* direction of travel.
OthersExhausted ==
    MergerValid =>
        \A i \in 1..Len(children_) :
            (i # current_ /\ ~ChildValid(childPos, i)) =>
                IF direction_ = "kForward"
                THEN FirstAbove(children_[i], MergerKey, TRUE) = 0
                ELSE LastBelow(children_[i], MergerKey, TRUE) = 0

\* A Next in forward direction and a Prev in reverse direction leave every
\* child but the current one where it was.
MovesOnlyCurrent ==
    (/\ mOp' # mOp \/ childPos' # childPos
     /\ \/ mOp'[1] = "Next" /\ direction_ = "kForward"
        \/ mOp'[1] = "Prev" /\ direction_ = "kReverse")
    => \A i \in 1..Len(children_) : i # current_ => childPos'[i] = childPos[i]

OthersPositionedOrEqual ==
    MergerValid =>
        \A i \in 1..Len(children_) :
            i # current_ =>
                \/ ~ChildValid(childPos, i)
                \/ ChildKey(children_, childPos, i) = MergerKey
                \/ childPos[i] =
                       IF direction_ = "kForward"
                       THEN FirstAbove(children_[i], MergerKey, TRUE)
                       ELSE LastBelow(children_[i], MergerKey, TRUE)

EntriesFrom(t) ==
    UNION {{children_[i][j] : j \in {q \in 1..Len(children_[i]) : children_[i][q].key >= t}} :
              i \in 1..Len(children_)}

\* C24: SeekToFirst (Seek(target)) followed by Next until invalid yields
\* every entry of every child (every entry with key >= target) exactly once,
\* in non-decreasing key order; while the scan runs it has yielded some of
\* them, each once and in order; and the iterator is valid after the
\* positioning call exactly when some child has such an entry.
C24_ForwardScan ==
    mscan[1] = "fwd" =>
        LET want == EntriesFrom(mscan[2])
            got_ == {mout[i] : i \in 1..Len(mout)}
        IN  /\ \A i, j \in 1..Len(mout) : i < j => mout[i] # mout[j] /\ mout[i].key <= mout[j].key
            /\ got_ \subseteq want
            /\ IF MergerValid THEN mout # << >> /\ mout[Len(mout)].key = MergerKey
                              ELSE got_ = want
            /\ mOp[1] \in {"Seek", "SeekToFirst"} => (MergerValid <=> want # {})

\* A Seek scan that ran to the end over children that share a key and hold
\* entries below the target.
C24_Witness ==
    /\ mscan[1] = "fwd" /\ mscan[2] >= 2 /\ ~MergerValid /\ mOp[1] = "Next"
    /\ Len(mout) >= 3
    /\ ~KeysDistinct
    /\ EntriesFrom(0) # EntriesFrom(mscan[2])

kFilterBaseLg == 11
kFilterBase == 2048
kBlockTrailerSize == 5
kEncodedLength == 48
kNoCompression == 0
kSnappyCompression == 1

TableKeys == 1..MaxTableKey

ValueLengths == {100, 3000}

BlockSizes == {64, 4096}

FilterPolicies == {"null", "exact", "mod2"}

OK == <<"ok">>

IOError(n) == <<"IOError", n>>

Corruption(what) == <<"Corruption", what>>

IsOk(st) == st = OK

ValueBytes(v) == v[Len(v)]

RECURSIVE SumBytes(_)
SumBytes(L) ==
    IF L = << >> THEN 0 ELSE L[1].key_bytes + L[1].value_bytes + 3 + SumBytes(Tail(L))

\* varint64 length of v.
RECURSIVE VarintLength(_)
VarintLength(v) == IF v < 128 THEN 1 ELSE 1 + VarintLength(v \div 128)

\* BlockHandle::EncodeTo: the handle and the length of its encoding.
EncodeHandle(h) ==
    [offset |-> h.offset, size |-> h.size,
     bytes |-> VarintLength(h.offset) + VarintLength(h.size)]

\* BlockHandle::DecodeFrom.
DecodeHandle(v) ==
    IF DOMAIN v = {"offset", "size", "bytes"}
    THEN [status |-> OK, handle |-> [offset |-> v.offset, size |-> v.size]]
    ELSE [status |-> Corruption("bad block handle"), handle |-> [offset |-> 0, size |-> 0]]

NullHandle == [offset |-> 0, size |-> 0]

\* A block under construction (BlockBuilder): the entries added, each with
\* the lengths of its key and value, and the restart interval.
BlockEntry(key, value, key_bytes, value_bytes) ==
    [key |-> key, value |-> value, key_bytes |-> key_bytes, value_bytes |-> value_bytes]

\* BlockBuilder::CurrentSizeEstimate, and the length of BlockBuilder::Finish:
\* the entries, the restart array and the restart count.
BlockBytes(L, restart_interval) ==
    SumBytes(L) + 4 * (IF Len(L) = 0 THEN 1 ELSE (Len(L) + restart_interval - 1) \div restart_interval) + 4

(***************************************************************************)
(* The filter policy: CreateFilter appends one byte for every key, the     *)
(* key's hash; KeyMayMatch looks the key's hash up.  "exact" hashes a key  *)
(* to itself, "mod2" to its parity, so that it has false positives.  The   *)
(* policy "always" answers that every key may match, whatever the filter.  *)
(***************************************************************************)
PolicyHash(policy, key) == IF policy = "exact" THEN key ELSE 100 + (key % 2)

PolicyCreateFilter(policy, keys) == [i \in 1..Len(keys) |-> PolicyHash(policy, keys[i])]

PolicyKeyMayMatch(policy, key, filter) ==
    \/ policy = "always"
    \/ \E i \in 1..Len(filter) : filter[i] = PolicyHash(policy, key)

\* The length of the metaindex key "filter." + FilterPolicy::Name().
MetaKeyBytes == 7 + 27

(***************************************************************************)
(* Fixed32 coding (util/coding.h): four bytes, little-endian.              *)
(***************************************************************************)
PutFixed32(v) ==
    <<v % 256, (v \div 256) % 256, (v \div 65536) % 256, (v \div 16777216) % 256>>

\* DecodeFixed32 of the four bytes after the first `at` bytes of s.
DecodeFixed32(s, at) ==
    s[at + 1] + 256 * s[at + 2] + 65536 * s[at + 3] + 16777216 * s[at + 4]

(***************************************************************************)
(* FilterBlockBuilder (src/table/filter_block.cc): keys are the keys added *)
(* since the last filter (keys_ and start_), result the filter data so far *)
(* (result_), filter_offsets the start of every filter in it.              *)
(***************************************************************************)
NewFilterBlockBuilder == [keys |-> << >>, result |-> << >>, filter_offsets |-> << >>]

\* FilterBlockBuilder::GenerateFilter.
GenerateFilter(policy, fb) ==
    IF Len(fb.keys) = 0
    THEN [fb EXCEPT !.filter_offsets = Append(@, Len(fb.result))]
    ELSE [fb EXCEPT !.filter_offsets = Append(@, Len(fb.result)),
                    !.result = @ \o PolicyCreateFilter(policy, fb.keys),
                    !.keys = << >>]

\* FilterBlockBuilder::StartBlock: GenerateFilter while filter_index is above
\* the number of filters.
RECURSIVE GenerateFiltersUpTo(_, _, _)
GenerateFiltersUpTo(policy, fb, filter_index) ==
    IF filter_index > Len(fb.filter_offsets)
    THEN GenerateFiltersUpTo(policy, GenerateFilter(policy, fb), filter_index)
    ELSE fb

StartBlock_Eager(policy, fb, block_offset) ==
    GenerateFiltersUpTo(policy, fb, block_offset \div kFilterBase + 1)

StartBlock(policy, fb, block_offset) ==
    GenerateFiltersUpTo(policy, fb, block_offset \div kFilterBase)

\* FilterBlockBuilder::AddKey.
AddKey(fb, key) == [fb EXCEPT !.keys = Append(@, key)]

RECURSIVE PutOffsets(_)
PutOffsets(offsets) ==
    IF offsets = << >> THEN << >> ELSE PutFixed32(offsets[1]) \o PutOffsets(Tail(offsets))

\* FilterBlockBuilder::Finish: the bytes of the filter block.
FilterBlockFinish(policy, fb) ==
    LET fb1 == IF Len(fb.keys) # 0 THEN GenerateFilter(policy, fb) ELSE fb
        array_offset == Len(fb1.result)
    IN  fb1.result \o PutOffsets(fb1.filter_offsets) \o PutFixed32(array_offset)
            \o <<kFilterBaseLg>>

(***************************************************************************)
(* FilterBlockReader: data_ is the contents, offset_ the place of the      *)
(* offset array in it (data_ is null when has_data is FALSE).              *)
(***************************************************************************)
NewFilterBlockReader(policy, contents) ==
    LET n == Len(contents)
        empty == [policy |-> policy, has_data |-> FALSE, data |-> << >>,
                  offset |-> 0, num |-> 0, base_lg |-> 0]
    IN  IF n < 5 THEN empty
        ELSE LET last_word == DecodeFixed32(contents, n - 5)
             IN  IF last_word > n - 5
                 THEN [empty EXCEPT !.base_lg = contents[n]]
                 ELSE [policy |-> policy, has_data |-> TRUE, data |-> contents,
                       offset |-> last_word, num |-> (n - 5 - last_word) \div 4,
                       base_lg |-> contents[n]]

\* FilterBlockReader::KeyMayMatch.
FilterKeyMayMatch(reader, block_offset, key) ==
    LET index == block_offset \div (2 ^ reader.base_lg)
    IN  IF index < reader.num
        THEN LET start == DecodeFixed32(reader.data, reader.offset + index * 4)
                 limit == DecodeFixed32(reader.data, reader.offset + index * 4 + 4)
             IN  IF start <= limit /\ limit <= reader.offset
                 THEN PolicyKeyMayMatch(reader.policy, key,
                                        SubSeq(reader.data, start + 1, limit))
                 ELSE IF start = limit THEN FALSE
                 ELSE TRUE
        ELSE TRUE

(***************************************************************************)
(* The WritableFile of a TableBuilder: the chunks appended so far, each    *)
(* [size, data], and the numbers of calls made (file_ops: Append and       *)
(* Flush calls; file_flushes: Flush calls).  With failAt = n > 0 the   *)
(* n-th call and every later one fail with an IOError of their own.        *)
(***************************************************************************)
kTableMagicNumber == "0xdb4775248b80fb57"

FileOpFails(e, n) == e.failAt # 0 /\ n >= e.failAt

\* r->status = r->file->Append(chunk).
FileAppend(r, e, chunk) ==
    LET n == r.file_ops + 1
    IN  IF FileOpFails(e, n)
        THEN [r EXCEPT !.file_ops = n, !.status = IOError(n)]
        ELSE [r EXCEPT !.file_ops = n, !.status = OK, !.file = Append(@, chunk)]

\* r->status = r->file->Flush().
FileFlush(r, e) ==
    LET n == r.file_ops + 1
    IN  [r EXCEPT !.file_ops = n, !.file_flushes = @ + 1,
                  !.status = IF FileOpFails(e, n) THEN IOError(n) ELSE OK]

RECURSIVE FileBytes(_)
FileBytes(f) == IF f = << >> THEN 0 ELSE f[1].size + FileBytes(Tail(f))

(***************************************************************************)
(* TableBuilder (src/table/table_builder.cc).  r holds the fields of Rep   *)
(* and the file.  An operation that writes a block returns [r, handle].    *)
(* filter_block_policy is the policy_ of the FilterBlockBuilder, fixed     *)
(* when the builder is made.                                               *)
(***************************************************************************)
InvalidArgument(what) == <<"InvalidArgument", what>>

NewTableBuilder(options) ==
    LET hasFilter == options.filter_policy # "null"
    IN  [options |-> options,
         index_block_options |-> [options EXCEPT !.block_restart_interval = 1],
         offset |-> 0,
         status |-> OK,
         data_block |-> << >>,
         index_block |-> << >>,
         last_key |-> 0,
         num_entries |-> 0,
         closed |-> FALSE,
         has_filter |-> hasFilter,
         filter_block_policy |-> options.filter_policy,
         filter_block |-> IF hasFilter
                          THEN StartBlock(options.filter_policy, NewFilterBlockBuilder, 0)
                          ELSE NewFilterBlockBuilder,
         pending_index_entry |-> FALSE,
         pending_handle |-> NullHandle,
         file |-> << >>,
         file_ops |-> 0,
         file_flushes |-> 0]

\* TableBuilder::ChangeOptions(options): the builder afterwards and the
\* status returned.
ChangeOptions_SameInterval(r, options) ==
    IF options.comparator # r.options.comparator
    THEN [rep |-> r,
          status |-> InvalidArgument("changing comparator while building table")]
    ELSE [rep |-> [r EXCEPT !.options = options, !.index_block_options = options],
          status |-> OK]

ChangeOptions(r, options) ==
    IF options.comparator # r.options.comparator
    THEN [rep |-> r,
          status |-> InvalidArgument("changing comparator while building table")]
    ELSE [rep |-> [r EXCEPT !.options = options,
                            !.index_block_options =
                                [options EXCEPT !.block_restart_interval = 1]],
          status |-> OK]

\* The crc32c of a block's contents and type byte, masked.
BlockCrc(contents, type) == <<"crc32c", contents.size, type>>

\* TableBuilder::WriteRawBlock: the offset moves when both appends went well.
AdvanceOffset(r, n) ==
    IF IsOk(r.status) THEN [r EXCEPT !.offset = @ + n] ELSE r

AppendTrailer(r, e, contents, type) ==
    IF IsOk(r.status)
    THEN AdvanceOffset(FileAppend(r, e,
                           [size |-> kBlockTrailerSize,
                            data |-> [type |-> type, crc |-> BlockCrc(contents, type)]]),
                       contents.size + kBlockTrailerSize)
    ELSE r

WriteRawBlock_SizeWithTrailer(r, e, contents, type) ==
    [rep |-> AppendTrailer(FileAppend(r, e, contents), e, contents, type),
     handle |-> [offset |-> r.offset, size |-> contents.size + kBlockTrailerSize]]

WriteRawBlock(r, e, contents, type) ==
    [rep |-> AppendTrailer(FileAppend(r, e, contents), e, contents, type),
     handle |-> [offset |-> r.offset, size |-> contents.size]]

\* port::Snappy_Compress: whether it is supported, and the compressed length.
SnappySupported(e) == e.snappyPercent # 0

SnappyLength(e, raw_size) == (raw_size * e.snappyPercent + 99) \div 100

\* The test of TableBuilder::WriteBlock that keeps the compressed form.
CompressionPays(compressed_size, raw_size) ==
    compressed_size < raw_size - (raw_size \div 8)

\* The type TableBuilder::WriteBlock stores a block of raw_size bytes with:
\* compression is the configured type, supported what Snappy_Compress
\* returns and compressed_size the length of its output.
StoredTypeFor(compression, supported, compressed_size, raw_size) ==
    IF /\ compression = kSnappyCompression
       /\ supported
       /\ CompressionPays(compressed_size, raw_size)
    THEN kSnappyCompression
    ELSE kNoCompression

StoredType(r, e, raw_size) ==
    StoredTypeFor(r.options.compression, SnappySupported(e),
                  SnappyLength(e, raw_size), raw_size)

\* The block_contents of TableBuilder::WriteBlock.
StoredContents(e, L, raw_size, type) ==
    IF type = kSnappyCompression
    THEN [size |-> SnappyLength(e, raw_size), data |-> [enc |-> "snappy", block |-> L]]
    ELSE [size |-> raw_size, data |-> [enc |-> "raw", block |-> L]]

\* TableBuilder::WriteBlock of the block with entries L; the caller's block
\* is Reset afterwards.
WriteBlockAs(r, e, L, raw_size, type) ==
    WriteRawBlock(r, e, StoredContents(e, L, raw_size, type), type)

WriteBlock(r, e, L, restart_interval) ==
    WriteBlockAs(r, e, L, BlockBytes(L, restart_interval),
                 StoredType(r, e, BlockBytes(L, restart_interval)))

\* TableBuilder::Flush, step by step: the data block is written and Reset,
\* the file is flushed, the filter block is told the next block's offset.
FlushWritten(wb) ==
    [wb.rep EXCEPT !.pending_handle = wb.handle, !.data_block = << >>]

FlushFile(r, e) ==
    IF IsOk(r.status)
    THEN FileFlush([r EXCEPT !.pending_index_entry = TRUE], e)
    ELSE r

FlushStartBlock_IfOk(r) ==
    IF r.has_filter /\ IsOk(r.status)
    THEN [r EXCEPT !.filter_block = StartBlock(r.filter_block_policy, @, r.offset)]
    ELSE r

FlushStartBlock(r) ==
    IF r.has_filter
    THEN [r EXCEPT !.filter_block = StartBlock(r.filter_block_policy, @, r.offset)]
    ELSE r

\* TableBuilder::Flush.  REQUIRES ~r.closed.
Flush(r, e) ==
    IF ~IsOk(r.status) THEN r
    ELSE IF r.data_block = << >> THEN r
    ELSE FlushStartBlock(FlushFile(FlushWritten(
             WriteBlock(r, e, r.data_block, r.options.block_restart_interval)), e))

\* The index entry of the block at pending_handle, under key.
AddIndexEntry_KeepPending(r, key) ==
    [r EXCEPT !.last_key = key,
              !.index_block = Append(@,
                  BlockEntry(key, EncodeHandle(r.pending_handle), KeyBytes,
                             EncodeHandle(r.pending_handle).bytes))]

AddIndexEntry(r, key) ==
    [r EXCEPT !.last_key = key,
              !.index_block = Append(@,
                  BlockEntry(key, EncodeHandle(r.pending_handle), KeyBytes,
                             EncodeHandle(r.pending_handle).bytes)),
              !.pending_index_entry = FALSE]

\* TableBuilder::Add, step by step.
AddPending_Dropped(r, sep) == [r EXCEPT !.pending_index_entry = FALSE]

AddPending(r, sep) == IF r.pending_index_entry THEN AddIndexEntry(r, sep) ELSE r

AddToFilter(r, key) ==
    IF r.has_filter THEN [r EXCEPT !.filter_block = AddKey(@, key)] ELSE r

AddToBlock(r, key, value) ==
    [r EXCEPT !.last_key = key,
              !.num_entries = @ + 1,
              !.data_block = Append(@, BlockEntry(key, value, KeyBytes, ValueBytes(value)))]

FlushIfFull(r, e) ==
    IF BlockBytes(r.data_block, r.options.block_restart_interval) >= r.options.block_size
    THEN Flush(r, e)
    ELSE r

\* TableBuilder::Add(key, value); sep is what FindShortestSeparator makes of
\* last_key when an index entry is pending.  REQUIRES ~r.closed.
Add_NoStatusCheck(r, e, key, value, sep) ==
    FlushIfFull(AddToBlock(AddToFilter(AddPending(r, sep), key), key, value), e)

Add(r, e, key, value, sep) ==
    IF ~IsOk(r.status) THEN r ELSE Add_NoStatusCheck(r, e, key, value, sep)

\* TableBuilder::Finish, step by step; fin is [rep, filter_block_handle,
\* metaindex_block_handle, index_block_handle].
FinishFlush(r, e) ==
    [rep |-> [Flush(r, e) EXCEPT !.closed = TRUE],
     filter_block_handle |-> NullHandle,
     metaindex_block_handle |-> NullHandle,
     index_block_handle |-> NullHandle]

FilterContents(bytes) ==
    [size |-> Len(bytes), data |-> [enc |-> "raw", block |-> bytes]]

FilterWritten(fin, wb) ==
    [fin EXCEPT !.rep = wb.rep, !.filter_block_handle = wb.handle]

FinishFilter(fin, e) ==
    IF IsOk(fin.rep.status) /\ fin.rep.has_filter
    THEN FilterWritten(fin,
             WriteRawBlock(fin.rep, e,
                 FilterContents(FilterBlockFinish(fin.rep.filter_block_policy,
                                                  fin.rep.filter_block)),
                 kNoCompression))
    ELSE fin

MetaIndexEntries(fin) ==
    IF fin.rep.has_filter
    THEN <<BlockEntry(<<"filter.", fin.rep.options.filter_policy>>,
                      EncodeHandle(fin.filter_block_handle), MetaKeyBytes,
                      EncodeHandle(fin.filter_block_handle).bytes)>>
    ELSE << >>

MetaIndexWritten(fin, wb) ==
    [fin EXCEPT !.rep = wb.rep, !.metaindex_block_handle = wb.handle]

FinishMetaIndex(fin, e) ==
    IF IsOk(fin.rep.status)
    THEN MetaIndexWritten(fin,
             WriteBlock(fin.rep, e, MetaIndexEntries(fin),
                        fin.rep.options.block_restart_interval))
    ELSE fin

IndexWritten(fin, wb) ==
    [fin EXCEPT !.rep = [wb.rep EXCEPT !.index_block = << >>],
                !.index_block_handle = wb.handle]

FinishPending_Dropped(r, succ) == [r EXCEPT !.pending_index_entry = FALSE]

FinishPending(r, succ) == IF r.pending_index_entry THEN AddIndexEntry(r, succ) ELSE r

FinishIndexBlock(fin, r, e) ==
    IndexWritten(fin, WriteBlock(r, e, r.index_block,
                                 r.index_block_options.block_restart_interval))

FinishIndex(fin, e, succ) ==
    IF IsOk(fin.rep.status)
    THEN FinishIndexBlock(fin, FinishPending(fin.rep, succ), e)
    ELSE fin

FinishFooter(fin, e) ==
    IF IsOk(fin.rep.status)
    THEN AdvanceOffset(FileAppend(fin.rep, e,
                           [size |-> kEncodedLength,
                            data |-> [metaindex_handle |-> fin.metaindex_block_handle,
                                      index_handle |-> fin.index_block_handle,
                                      magic |-> kTableMagicNumber]]),
                       kEncodedLength)
    ELSE fin.rep

\* TableBuilder::Finish; succ is what FindShortSuccessor makes of last_key.
\* REQUIRES ~r.closed.  status() afterwards is what Finish returns.
Finish(r, e, succ) ==
    FinishFooter(FinishIndex(FinishMetaIndex(FinishFilter(FinishFlush(r, e), e), e),
                             e, succ), e)

\* TableBuilder::Abandon.  REQUIRES ~r.closed.
Abandon(r) == [r EXCEPT !.closed = TRUE]

\* TableBuilder::status, NumEntries and FileSize.
BuilderStatus(r) == r.status

NumEntries(r) == r.num_entries

FileSize(r) == r.offset

(***************************************************************************)
(* Reading the file: the RandomAccessFile holds the chunks the builder     *)
(* appended.  ReadBlock (table/format.cc) reads the size bytes at offset   *)
(* and the trailer after them, and uncompresses them per the type byte.    *)
(***************************************************************************)
\* The index of the chunk that starts at byte offset, 0 when none does.
RECURSIVE ChunkIndexAt(_, _, _, _)
ChunkIndexAt(f, offset, i, pos) ==
    IF i > Len(f) \/ pos > offset THEN 0
    ELSE IF pos = offset THEN i
    ELSE ChunkIndexAt(f, offset, i + 1, pos + f[i].size)

IsTrailer(chunk) == DOMAIN chunk.data = {"type", "crc"}

\* A chunk the device cannot read: RandomAccessFile::Read of it fails.
Unreadable(chunk) == "unreadable" \in DOMAIN chunk

\* The last kEncodedLength bytes end with the magic number.
IsFooter(chunk) ==
    /\ chunk.size = kEncodedLength
    /\ DOMAIN chunk.data = {"metaindex_handle", "index_handle", "magic"}
    /\ chunk.data.magic = kTableMagicNumber

\* BlockHandle::DecodeFrom succeeds on both handles of the footer.
FooterHandlesDecode(chunk) ==
    /\ DOMAIN chunk.data.metaindex_handle = {"offset", "size"}
    /\ DOMAIN chunk.data.index_handle = {"offset", "size"}

ReadBlock(f, handle) ==
    LET i == ChunkIndexAt(f, handle.offset, 1, 0)
        bad(what) == [status |-> Corruption(what), data |-> << >>]
    IN  IF i = 0 \/ i + 1 > Len(f) THEN bad("truncated block read")
        ELSE IF Unreadable(f[i]) \/ Unreadable(f[i + 1])
        THEN [status |-> IOError(0), data |-> << >>]
        ELSE IF f[i].size # handle.size \/ ~IsTrailer(f[i + 1])
        THEN bad("truncated block read")
        ELSE IF f[i + 1].data.type = kNoCompression
        THEN IF f[i].data.enc = "raw"
             THEN [status |-> OK, data |-> f[i].data.block]
             ELSE bad("bad block contents")
        ELSE IF f[i + 1].data.type = kSnappyCompression
        THEN IF f[i].data.enc = "snappy"
             THEN [status |-> OK, data |-> f[i].data.block]
             ELSE bad("corrupted compressed block contents")
        ELSE bad("bad block type")

\* file->Read and Footer::DecodeFrom of the last kEncodedLength bytes of
\* the file.
ReadFooter(f) ==
    IF Unreadable(f[Len(f)])
    THEN [status |-> IOError(0), footer |-> << >>]
    ELSE IF ~IsFooter(f[Len(f)])
    THEN [status |-> Corruption("not an sstable (bad magic number)"), footer |-> << >>]
    ELSE IF ~FooterHandlesDecode(f[Len(f)])
    THEN [status |-> Corruption("bad block handle"), footer |-> << >>]
    ELSE [status |-> OK, footer |-> f[Len(f)].data]

(***************************************************************************)
(* Block::Iter over the entries of a block: a position, 0 when not Valid.  *)
(***************************************************************************)
BlockSeekToFirst(L) == IF Len(L) > 0 THEN 1 ELSE 0

BlockSeek(L, target) ==
    LET ge == {i \in 1..Len(L) : L[i].key >= target}
    IN  IF ge = {} THEN 0 ELSE CHOOSE i \in ge : \A j \in ge : i <= j

BlockNext(L, pos) == IF pos < Len(L) THEN pos + 1 ELSE 0

BlockSeekToLast(L) == Len(L)

BlockPrev(L, pos) == pos - 1

(***************************************************************************)
(* Table (src/table/table.cc).  A Table is [options, index_block, filter,  *)
(* metaindex_handle]; filter is NoFilter for a null rep_->filter.          *)
(***************************************************************************)
NoFilter == [has_filter |-> FALSE]

NoTable == [status |-> <<"none">>, opened |-> FALSE, reads |-> << >>]

\* Table::ReadFilter.
ReadFilter_Unchecked(f, policy, filter_handle_value) ==
    [has_filter |-> TRUE,
     reader |-> NewFilterBlockReader(policy,
                    ReadBlock(f, DecodeHandle(filter_handle_value).handle).data)]

ReadFilter(f, policy, filter_handle_value) ==
    LET d == DecodeHandle(filter_handle_value)
    IN  IF ~IsOk(d.status) THEN NoFilter
        ELSE LET block == ReadBlock(f, d.handle)
             IN  IF ~IsOk(block.status) THEN NoFilter
                 ELSE [has_filter |-> TRUE,
                       reader |-> NewFilterBlockReader(policy, block.data)]

\* Table::ReadMeta.  The metaindex block holds at most one entry, so the
\* Seek to "filter." + Name() stands on that key exactly when it is there.
ReadMeta(f, options, footer) ==
    IF options.filter_policy = "null" THEN NoFilter
    ELSE LET contents == ReadBlock(f, footer.metaindex_handle)
         IN  IF ~IsOk(contents.status) THEN NoFilter
             ELSE LET key == <<"filter.", options.filter_policy>>
                      hit == SelectSeq(contents.data, LAMBDA en : en.key = key)
                  IN  IF hit # << >>
                      THEN ReadFilter(f, options.filter_policy, hit[1].value)
                      ELSE NoFilter

\* The offsets Table::ReadMeta and Table::ReadFilter read the file at.
MetaReads(f, options, footer) ==
    IF options.filter_policy = "null" THEN << >>
    ELSE LET contents == ReadBlock(f, footer.metaindex_handle)
             hit == SelectSeq(contents.data,
                              LAMBDA en : en.key = <<"filter.", options.filter_policy>>)
         IN  <<footer.metaindex_handle.offset>> \o
             (IF IsOk(contents.status) /\ hit # << >> /\ IsOk(DecodeHandle(hit[1].value).status)
              THEN <<DecodeHandle(hit[1].value).handle.offset>>
              ELSE << >>)

\* Whether Table::Open makes a Table of the index block it read.
IndexBlockUsable_Always(contents) == TRUE

IndexBlockUsable(contents) == IsOk(contents.status)

\* Table::Open once the footer is decoded.
OpenWithFooter(options, f, size, footer, index_block_contents) ==
    IF IndexBlockUsable(index_block_contents)
    THEN [status |-> index_block_contents.status,
          opened |-> TRUE,
          reads |-> <<size - kEncodedLength, footer.index_handle.offset>>
                        \o MetaReads(f, options, footer),
          options |-> options,
          metaindex_handle |-> footer.metaindex_handle,
          index_block |-> index_block_contents.data,
          filter |-> ReadMeta(f, options, footer)]
    ELSE [NoTable EXCEPT !.status = index_block_contents.status,
                         !.reads = <<size - kEncodedLength, footer.index_handle.offset>>]

\* Table::Open once the footer is read.
OpenWithFooterRead(options, f, size, ft) ==
    IF ~IsOk(ft.status)
    THEN [NoTable EXCEPT !.status = ft.status, !.reads = <<size - kEncodedLength>>]
    ELSE OpenWithFooter(options, f, size, ft.footer, ReadBlock(f, ft.footer.index_handle))

\* Table::Open(options, file, size): the status returned, *table, and the
\* offsets the file was read at.
TableOpen(options, f, size) ==
    IF size < kEncodedLength
    THEN [NoTable EXCEPT !.status = Corruption("file is too short to be an sstable")]
    ELSE OpenWithFooterRead(options, f, size, ReadFooter(f))

\* Table::BlockReader with no block cache: an iterator over the block, or
\* an error iterator: [entries, status].
BlockReader(f, index_value) ==
    LET d == DecodeHandle(index_value)
    IN  IF IsOk(d.status)
        THEN LET contents == ReadBlock(f, d.handle)
             IN  IF IsOk(contents.status)
                 THEN [entries |-> contents.data, status |-> OK]
                 ELSE [entries |-> << >>, status |-> contents.status]
        ELSE [entries |-> << >>, status |-> d.status]

\* Table::ApproximateOffsetOf(key).
ApproximateOffsetOf_Undecoded(tb, ipos) ==
    IF ipos # 0
    THEN DecodeHandle(tb.index_block[ipos].value).handle.offset
    ELSE tb.metaindex_handle.offset

ApproximateOffsetOf_At(tb, ipos) ==
    IF ipos # 0
    THEN IF IsOk(DecodeHandle(tb.index_block[ipos].value).status)
         THEN DecodeHandle(tb.index_block[ipos].value).handle.offset
         ELSE tb.metaindex_handle.offset
    ELSE tb.metaindex_handle.offset

ApproximateOffsetOf(tb, key) == ApproximateOffsetOf_At(tb, BlockSeek(tb.index_block, key))

\* The filter test of Table::InternalGet.
GetFilterNegative_Never(tb, handle_value, k) == FALSE

GetFilterNegative(tb, handle_value, k) ==
    /\ tb.filter.has_filter
    /\ IsOk(DecodeHandle(handle_value).status)
    /\ ~FilterKeyMayMatch(tb.filter.reader, DecodeHandle(handle_value).handle.offset, k)

\* block_iter->Seek(k) of Table::InternalGet.
GetBlockSeek_ToFirst(L, k) == BlockSeekToFirst(L)

GetBlockSeek(L, k) == BlockSeek(L, k)

\* Table::InternalGet(k): the status returned and the calls of
\* handle_result made, each [key, value].
InternalGet(tb, f, k) ==
    LET ipos == BlockSeek(tb.index_block, k)
    IN  IF ipos # 0
        THEN LET handle_value == tb.index_block[ipos].value
             IN  IF GetFilterNegative(tb, handle_value, k)
                 THEN [status |-> OK, calls |-> << >>]
                 ELSE LET block_iter == BlockReader(f, handle_value)
                          pos == GetBlockSeek(block_iter.entries, k)
                      IN  [status |-> block_iter.status,
                           calls |-> IF pos # 0
                                     THEN <<[key |-> block_iter.entries[pos].key,
                                             value |-> block_iter.entries[pos].value]>>
                                     ELSE << >>]
        ELSE [status |-> OK, calls |-> << >>]

(***************************************************************************)
(* TwoLevelIterator (src/table/two_level_iterator.cc) over the index block *)
(* of a Table: index_pos is index_iter_, has_data tells data_iter_.iter()  *)
(* from nullptr, data and data_pos are the data iterator.  block_reads     *)
(* lists the index values block_function_ was called with during the last  *)
(* operation.                                                              *)
(***************************************************************************)
NewTwoLevelIterator ==
    [index_pos |-> 0, has_data |-> FALSE, data |-> [entries |-> << >>, status |-> OK],
     data_pos |-> 0, data_block_handle |-> << >>, status_ |-> OK, block_reads |-> << >>,
     index_status |-> OK]

\* An index entry the index iterator cannot parse.
CorruptEntry(e) == "corrupt" \in DOMAIN e

\* The index iterator moved to position p of the index block: on an entry it
\* cannot parse it becomes invalid and its status Corruption, for good.
IndexAt(tb, it, p) ==
    IF p # 0 /\ CorruptEntry(tb.index_block[p])
    THEN [it EXCEPT !.index_pos = 0,
                    !.index_status = IF IsOk(@) THEN Corruption("bad entry in block") ELSE @]
    ELSE [it EXCEPT !.index_pos = p]

\* The iterator at the start of an operation.
AtCall(it) == [it EXCEPT !.block_reads = << >>]

\* TwoLevelIterator::SaveError.
SaveError(it, st) ==
    IF IsOk(it.status_) /\ ~IsOk(st) THEN [it EXCEPT !.status_ = st] ELSE it

\* TwoLevelIterator::SetDataIterator(nullptr) and SetDataIterator(data_iter).
SetDataIteratorNull(it) ==
    [(IF it.has_data THEN SaveError(it, it.data.status) ELSE it)
        EXCEPT !.has_data = FALSE, !.data = [entries |-> << >>, status |-> OK],
               !.data_pos = 0]

SetDataIterator(it, data_iter) ==
    [(IF it.has_data THEN SaveError(it, it.data.status) ELSE it)
        EXCEPT !.has_data = TRUE, !.data = data_iter, !.data_pos = 0]

\* TwoLevelIterator::InitDataBlock.
InitDataBlock_KeepIter(tb, f, it) ==
    IF it.index_pos = 0 THEN SetDataIteratorNull(it)
    ELSE IF it.has_data THEN it
    ELSE SetDataIterator([it EXCEPT !.data_block_handle = tb.index_block[it.index_pos].value,
                                    !.block_reads = Append(@, tb.index_block[it.index_pos].value)],
                         BlockReader(f, tb.index_block[it.index_pos].value))

InitDataBlock_AlwaysRead(tb, f, it) ==
    IF it.index_pos = 0 THEN SetDataIteratorNull(it)
    ELSE SetDataIterator([it EXCEPT !.data_block_handle = tb.index_block[it.index_pos].value,
                                    !.block_reads = Append(@, tb.index_block[it.index_pos].value)],
                         BlockReader(f, tb.index_block[it.index_pos].value))

InitDataBlock(tb, f, it) ==
    IF it.index_pos = 0 THEN SetDataIteratorNull(it)
    ELSE LET handle == tb.index_block[it.index_pos].value
         IN  IF it.has_data /\ handle = it.data_block_handle THEN it
             ELSE SetDataIterator([it EXCEPT !.data_block_handle = handle,
                                             !.block_reads = Append(@, handle)],
                                  BlockReader(f, handle))

\* TwoLevelIterator::SkipEmptyDataBlocksForward.
RECURSIVE SkipEmptyDataBlocksForward(_, _, _)
SkipEmptyDataBlocksForward(tb, f, it) ==
    IF ~it.has_data \/ it.data_pos = 0
    THEN IF it.index_pos = 0 THEN SetDataIteratorNull(it)
         ELSE LET it1 == InitDataBlock(tb, f,
                             IndexAt(tb, it, BlockNext(tb.index_block, it.index_pos)))
                  it2 == IF it1.has_data
                         THEN [it1 EXCEPT !.data_pos = BlockSeekToFirst(it1.data.entries)]
                         ELSE it1
              IN  SkipEmptyDataBlocksForward(tb, f, it2)
    ELSE it

\* TwoLevelIterator::SeekToFirst.
TwoLevelSeekToFirst(tb, f, it) ==
    LET it1 == InitDataBlock(tb, f,
                   IndexAt(tb, it, BlockSeekToFirst(tb.index_block)))
        it2 == IF it1.has_data
               THEN [it1 EXCEPT !.data_pos = BlockSeekToFirst(it1.data.entries)]
               ELSE it1
    IN  SkipEmptyDataBlocksForward(tb, f, it2)

\* TwoLevelIterator::Seek.
TwoLevelSeek_First(tb, f, it, target) == TwoLevelSeekToFirst(tb, f, it)

TwoLevelSeek(tb, f, it, target) ==
    LET it1 == InitDataBlock(tb, f,
                   IndexAt(tb, it, BlockSeek(tb.index_block, target)))
        it2 == IF it1.has_data
               THEN [it1 EXCEPT !.data_pos = BlockSeek(it1.data.entries, target)]
               ELSE it1
    IN  SkipEmptyDataBlocksForward(tb, f, it2)

\* TwoLevelIterator::Next.  REQUIRES Valid().
TwoLevelNext(tb, f, it) ==
    SkipEmptyDataBlocksForward(tb, f,
        [it EXCEPT !.data_pos = BlockNext(it.data.entries, @)])

\* TwoLevelIterator::SkipEmptyDataBlocksBackward.
RECURSIVE SkipEmptyDataBlocksBackward(_, _, _)
SkipEmptyDataBlocksBackward(tb, f, it) ==
    IF ~it.has_data \/ it.data_pos = 0
    THEN IF it.index_pos = 0 THEN SetDataIteratorNull(it)
         ELSE LET it1 == InitDataBlock(tb, f,
                             IndexAt(tb, it, BlockPrev(tb.index_block, it.index_pos)))
                  it2 == IF it1.has_data
                         THEN [it1 EXCEPT !.data_pos = BlockSeekToLast(it1.data.entries)]
                         ELSE it1
              IN  SkipEmptyDataBlocksBackward(tb, f, it2)
    ELSE it

\* TwoLevelIterator::SeekToLast.
TwoLevelSeekToLast(tb, f, it) ==
    LET it1 == InitDataBlock(tb, f,
                   IndexAt(tb, it, BlockSeekToLast(tb.index_block)))
        it2 == IF it1.has_data
               THEN [it1 EXCEPT !.data_pos = BlockSeekToLast(it1.data.entries)]
               ELSE it1
    IN  SkipEmptyDataBlocksBackward(tb, f, it2)

\* TwoLevelIterator::Prev.  REQUIRES Valid().
TwoLevelPrev_Forward(tb, f, it) ==
    SkipEmptyDataBlocksForward(tb, f,
        [it EXCEPT !.data_pos = BlockPrev(it.data.entries, @)])

TwoLevelPrev(tb, f, it) ==
    SkipEmptyDataBlocksBackward(tb, f,
        [it EXCEPT !.data_pos = BlockPrev(it.data.entries, @)])

\* TwoLevelIterator::Valid, key, value and status.
TwoLevelValid(it) == it.has_data /\ it.data_pos # 0

TwoLevelKey(it) == it.data.entries[it.data_pos].key

TwoLevelValue(it) == it.data.entries[it.data_pos].value

TwoLevelStatus(it) ==
    IF ~IsOk(it.index_status) THEN it.index_status
    ELSE IF it.has_data /\ ~IsOk(it.data.status) THEN it.data.status
    ELSE it.status_

(***************************************************************************)
(* The specification of the table layer: a TableBuilder is given keys in   *)
(* increasing order, with flushes in between, and is finished or           *)
(* abandoned; the file is then opened as a Table, iterated and queried.    *)
(***************************************************************************)
MaxFailAt == 10    \* the file starts failing at its n-th call, n in 1 .. MaxFailAt, or never

BuilderOptions ==
    [block_size : BlockSizes,
     compression : {kNoCompression, kSnappyCompression},
     filter_policy : FilterPolicies,
     block_restart_interval : {16},
     comparator : {"leveldb.BytewiseComparator"}]

Envs == [failAt : 0..MaxFailAt, snappyPercent : {0, 50, 95}]

NoIter == [created |-> FALSE]

NoGet == [k |-> 0, status |-> <<"none">>, calls |-> << >>]

TableValue(key, len) == <<key, len>>

\* A new TableBuilder over an empty file, in an environment of E.
InitBuilderIn(E) ==
    /\ IdleDBIter
    /\ IdleMerger
    /\ IdleExtra
    /\ \E o \in BuilderOptions : w = NewTableBuilder(o)
    /\ env \in E
    /\ (w.options.compression = kNoCompression => env.snappyPercent = 0)
    /\ added = << >>
    /\ blocks = << >>
    /\ finishStatus = <<"none">>
    /\ table = NoTable
    /\ titer = NoIter
    /\ tseen = << >>
    /\ got = NoGet
    /\ tOp = <<"new">>

\* The file never fails.
InitTable == InitBuilderIn({e \in Envs : e.failAt = 0})

\* The file may fail.
InitBuilder == InitBuilderIn(Envs)

\* The data block a builder call wrote, if it wrote one: the file offset
\* moved, and the block is the chunk before the last trailer.
BlocksWith(acc, before, after) ==
    IF after.offset # before.offset
    THEN Append(acc, [offset |-> before.offset,
                      entries |-> after.file[Len(before.file) + 1].data.block])
    ELSE acc

BlocksAfter(before, after) == BlocksWith(blocks, before, after)

TBAdd ==
    /\ ~w.closed
    /\ \E key \in TableKeys, len \in ValueLengths :
         /\ (IsOk(w.status) /\ w.num_entries > 0) => key > w.last_key
         /\ \E sep \in (IF IsOk(w.status) /\ w.pending_index_entry
                        THEN w.last_key..(key - 1) ELSE {w.last_key}) :
              /\ w' = Add(w, env, key, TableValue(key, len), sep)
              /\ added' = IF IsOk(w.status)
                          THEN Append(added, <<key, TableValue(key, len)>>)
                          ELSE added
              /\ blocks' = BlocksAfter(w, w')
              /\ tOp' = <<"Add", IsOk(w.status)>>
    /\ UNCHANGED <<env, finishStatus, table, titer, tseen, got, dbVars, mVars, xVars>>

TBFlush ==
    /\ ~w.closed
    /\ w' = Flush(w, env)
    /\ blocks' = BlocksAfter(w, w')
    /\ tOp' = <<"Flush", IsOk(w.status)>>
    /\ UNCHANGED <<env, added, finishStatus, table, titer, tseen, got, dbVars, mVars, xVars>>

TBFinish ==
    /\ ~w.closed
    /\ \E succ \in w.last_key..(w.last_key + 1) :
         /\ w' = Finish(w, env, succ)
         /\ finishStatus' = w'.status
         /\ blocks' = BlocksAfter(w, Flush(w, env))
         /\ tOp' = <<"Finish", IsOk(w.status)>>
    /\ UNCHANGED <<env, added, table, titer, tseen, got, dbVars, mVars, xVars>>

TBAbandon ==
    /\ ~w.closed
    /\ w' = Abandon(w)
    /\ tOp' = <<"Abandon", IsOk(w.status)>>
    /\ UNCHANGED <<env, added, blocks, finishStatus, table, titer, tseen, got, dbVars, mVars, xVars>>

TOpen ==
    /\ w.closed
    /\ ~table.opened
    /\ table.status = <<"none">>
    /\ \E policy \in FilterPolicies :
         table' = TableOpen([filter_policy |-> policy], w.file, FileBytes(w.file))
    /\ tOp' = <<"Open">>
    /\ UNCHANGED <<w, env, added, blocks, finishStatus, titer, tseen, got, dbVars, mVars, xVars>>

SeenAfter(it, acc) ==
    IF TwoLevelValid(it) THEN Append(acc, <<TwoLevelKey(it), TwoLevelValue(it)>>) ELSE acc

TSeekToFirst ==
    /\ table.opened
    /\ LET it == TwoLevelSeekToFirst(table, w.file, NewTwoLevelIterator)
       IN  /\ titer' = [created |-> TRUE, it |-> it]
           /\ tseen' = SeenAfter(it, << >>)
    /\ tOp' = <<"SeekToFirst">>
    /\ UNCHANGED <<w, env, added, blocks, finishStatus, table, got, dbVars, mVars, xVars>>

TNext ==
    /\ table.opened
    /\ titer.created
    /\ TwoLevelValid(titer.it)
    /\ LET it == TwoLevelNext(table, w.file, AtCall(titer.it))
       IN  /\ titer' = [created |-> TRUE, it |-> it]
           /\ tseen' = SeenAfter(it, tseen)
    /\ tOp' = <<"Next">>
    /\ UNCHANGED <<w, env, added, blocks, finishStatus, table, got, dbVars, mVars, xVars>>

TGet ==
    /\ table.opened
    /\ \E k \in 0..(MaxTableKey + 1) :
         LET g == InternalGet(table, w.file, k)
         IN  got' = [k |-> k, status |-> g.status, calls |-> g.calls]
    /\ tOp' = <<"Get">>
    /\ UNCHANGED <<w, env, added, blocks, finishStatus, table, titer, tseen, dbVars, mVars, xVars>>

NextTable ==
    \/ TBAdd
    \/ TBFlush
    \/ TBFinish
    \/ TBAbandon
    \/ TOpen
    \/ TSeekToFirst
    \/ TNext
    \/ TGet

SpecTable == InitTable /\ [][NextTable]_vars

NextBuilder ==
    \/ TBAdd
    \/ TBFlush
    \/ TBFinish
    \/ TBAbandon

SpecBuilder == InitBuilder /\ [][NextBuilder]_vars

(***************************************************************************)
(* Claims about the table layer.                                           *)
(***************************************************************************)
\* Finish was called and returned ok.
TableBuilt == w.closed /\ IsOk(finishStatus)

StoredKeys == {added[i][1] : i \in 1..Len(added)}

\* The (key, value) pairs added with a key >= k, in order.
AddedFrom(k) == SelectSeq(added, LAMBDA kv : kv[1] >= k)

\* C6: Table round trip.  After adding a strictly increasing sequence of
\* (key, value) pairs, with any Flush calls in between and any block_size,
\* and a Finish that returned ok, Table::Open succeeds, and the iterator of
\* Table::NewIterator walked from SeekToFirst with Next stands on exactly the
\* added pairs, in the same order, and then becomes invalid with an ok status.
C6_TableRoundTrip ==
    TableBuilt =>
        /\ table.status # <<"none">> => (IsOk(table.status) /\ table.opened)
        /\ (table.opened /\ titer.created) =>
               /\ IsPrefix(tseen, added)
               /\ TwoLevelValid(titer.it) => tseen # << >>
               /\ ~TwoLevelValid(titer.it) =>
                      (tseen = added /\ IsOk(TwoLevelStatus(titer.it)))

\* Three pairs in two or more blocks were written and read back to the end.
C6_Witness ==
    /\ TableBuilt /\ table.opened /\ titer.created
    /\ ~TwoLevelValid(titer.it)
    /\ Len(added) = 3 /\ Len(blocks) >= 2
    /\ tseen = added

\* C7: Filter soundness.  In a table built with a filter policy, for every
\* key added to a data block written at file offset o,
\* FilterBlockReader::KeyMayMatch(o, key) on the finished filter block is
\* true, whatever the sizes of the data blocks.
C7_FilterSoundness ==
    (TableBuilt /\ table.opened /\ table.filter.has_filter) =>
        \A i \in 1..Len(blocks) : \A j \in 1..Len(blocks[i].entries) :
            FilterKeyMayMatch(table.filter.reader, blocks[i].offset,
                              blocks[i].entries[j].key)

\* A table with an exact filter, two blocks under one 2 KiB window and a
\* block beyond the first window.
C7_Witness ==
    /\ TableBuilt /\ table.opened /\ table.filter.has_filter
    /\ w.options.filter_policy = "exact"
    /\ Len(blocks) = 3
    /\ blocks[2].offset < kFilterBase
    /\ blocks[3].offset >= kFilterBase

\* An InternalGet was made on the table of a successful build.
GetMade == TableBuilt /\ table.opened /\ got.status # <<"none">>

\* C8 as stated: InternalGet for a key that is not stored returns ok and
\* does not invoke the handler.
C8_AbsentKeyHandlerNotInvoked ==
    (GetMade /\ got.k \notin StoredKeys) =>
        (IsOk(got.status) /\ got.calls = << >>)

\* C8: Table::InternalGet for a key that is not stored in the table returns
\* an ok status and never passes an entry with that key to the handler; it
\* invokes the handler at most once, and the entry it then passes is the
\* stored entry with the smallest key greater than the absent key.
C8_AbsentKeyNeverPassed ==
    (GetMade /\ got.k \notin StoredKeys) =>
        /\ IsOk(got.status)
        /\ Len(got.calls) <= 1
        /\ \A i \in 1..Len(got.calls) :
              /\ got.calls[i].key # got.k
              /\ AddedFrom(got.k) # << >>
              /\ got.calls[i].key = AddedFrom(got.k)[1][1]
              /\ got.calls[i].value = AddedFrom(got.k)[1][2]

\* The handler was invoked for an absent key.
C8_Witness ==
    /\ GetMade
    /\ got.k \notin StoredKeys
    /\ got.calls # << >>

\* The index entries with a key >= k.
IndexFrom(k) == {i \in 1..Len(table.index_block) : table.index_block[i].key >= k}

\* The written block the index seek for k selects.
SelectedBlock(k) ==
    LET i == CHOOSE i \in IndexFrom(k) : \A j \in IndexFrom(k) : i <= j
    IN  CHOOSE b \in {blocks[n] : n \in 1..Len(blocks)} :
            b.offset = table.index_block[i].value.offset

\* The handler is due: the index seek is valid, the filter (if any) does not
\* report a negative, and the selected block holds an entry with key >= k.
HandlerDue(k) ==
    /\ IndexFrom(k) # {}
    /\ ~(table.filter.has_filter
          /\ ~FilterKeyMayMatch(table.filter.reader, SelectedBlock(k).offset, k))
    /\ \E j \in 1..Len(SelectedBlock(k).entries) : SelectedBlock(k).entries[j].key >= k

\* C9: Table::InternalGet(k) invokes the handler at most once, and invokes
\* it if and only if the index seek is valid, the filter (if any) does not
\* report a negative, and the selected data block contains an entry with
\* key >= k; the entry passed is then the smallest entry of the whole table
\* whose key is >= k.
C9_HandlerInvokedIff ==
    GetMade =>
        /\ Len(got.calls) <= 1
        /\ got.calls # << >> <=> HandlerDue(got.k)
        /\ got.calls # << >> =>
              got.calls[1] = [key |-> AddedFrom(got.k)[1][1],
                              value |-> AddedFrom(got.k)[1][2]]

\* The handler was invoked with an entry of a later block than the first, in
\* a table with a filter.
C9_Witness ==
    /\ GetMade
    /\ table.filter.has_filter
    /\ got.calls # << >>
    /\ Len(blocks) >= 2
    /\ got.calls[1].key > blocks[1].entries[Len(blocks[1].entries)].key

\* C10: Sticky builder error.  Once TableBuilder::status() is non-ok, every
\* later Add, Flush and Finish appends nothing to the file and does not call
\* file Flush, leaves status(), NumEntries() and FileSize() unchanged, and
\* Finish returns that same error.
C10_StickyBuilderError ==
    [][(~IsOk(BuilderStatus(w)) /\ tOp'[1] \in {"Add", "Flush", "Finish"}) =>
          /\ w'.file = w.file
          /\ w'.file_ops = w.file_ops
          /\ w'.file_flushes = w.file_flushes
          /\ BuilderStatus(w') = BuilderStatus(w)
          /\ NumEntries(w') = NumEntries(w)
          /\ FileSize(w') = FileSize(w)
          /\ tOp'[1] = "Finish" => finishStatus' = BuilderStatus(w)]_vars

\* Finish was called on a builder that had entries, bytes in its file and a
\* non-ok status, and returned that status.
C10_Witness ==
    /\ tOp = <<"Finish", FALSE>>
    /\ w.num_entries > 0
    /\ w.file # << >>
    /\ ~IsOk(finishStatus)
    /\ finishStatus = w.status

(***************************************************************************)
(* DBIter over a stream that holds corrupted internal keys: an entry whose *)
(* type byte is above kTypeValue fails ParseInternalKey.                   *)
(***************************************************************************)
MaxCorruptEntries == 2    \* internal entries in a stream with corrupted keys

\* Streams of entries any of which may carry the type byte 2.
CorruptStreams ==
    UNION {{SortEntries({[ukey |-> p[1], seq |-> p[2], type |-> ty[p],
                          value |-> <<"v", p[1], p[2]>>] : p \in P}) :
               ty \in [P -> {kTypeDeletion, kTypeValue, 2}]} :
           P \in {Q \in SUBSET EntryPairs : Cardinality(Q) <= MaxCorruptEntries}}

InitDBIterCorrupt ==
    /\ entries \in CorruptStreams
    /\ sequence_ \in 0..MaxSequence
    /\ dbi = NewDBIter
    /\ dbiBase = NewDBIter
    /\ dbOp = <<"new">>
    /\ scan = "none"
    /\ out = << >>
    /\ fwdDone = NoScan
    /\ revDone = NoScan
    /\ vcur = 0
    /\ IdleMerger
    /\ IdleTable
    /\ IdleExtra

SpecDBIterCorrupt == InitDBIterCorrupt /\ [][NextDBIter]_vars

\* C11 as stated: in every state of a DBIter reached by SeekToFirst,
\* SeekToLast, Seek, Next and Prev, a non-ok status() means Valid() is false,
\* so that no key/value is exposed once an error has been recorded.
C11_ErrorImpliesInvalid ==
    DBIterStatus(dbi) # "ok" => ~dbi.valid

\* The DBIter stands on an entry while its status is Corruption.
C11_Witness ==
    /\ dbi.valid
    /\ DBIterStatus(dbi) = "Corruption"


(***************************************************************************)
(* Opening files that are damaged.  A table is built without failures,     *)
(* the file is then damaged in one way, and the damaged file is opened,    *)
(* queried and asked for approximate offsets.  env remembers the damage    *)
(* and the file as it was written.                                         *)
(***************************************************************************)
OpenKeyLists == {<< >>, <<2>>, <<1, 3>>}

OpenOptions == {o \in BuilderOptions : o.compression = kNoCompression}

\* The builder and the data blocks written after Add of every key of keys
\* and Finish; with short = 1 the comparator shortens every separator.
RECURSIVE BuildKeys(_, _, _, _)
BuildKeys(b, e, keys, short) ==
    IF keys = << >>
    THEN [rep |-> Finish(b.rep, e, b.rep.last_key + short),
          blocks |-> BlocksWith(b.blocks, b.rep, Flush(b.rep, e))]
    ELSE BuildKeys([rep |-> Add(b.rep, e, keys[1], TableValue(keys[1], 100),
                                IF short = 1 THEN keys[1] - 1 ELSE b.rep.last_key),
                    blocks |-> BlocksWith(b.blocks, b.rep,
                                   Add(b.rep, e, keys[1], TableValue(keys[1], 100),
                                       IF short = 1 THEN keys[1] - 1 ELSE b.rep.last_key))],
                   e, Tail(keys), short)

\* A value that BlockHandle::DecodeFrom rejects.
BadHandleEncoding == [garbage |-> TRUE]

\* Every entry of the block in chunk i of f gets a value that is no handle.
WithBadHandles(f, i) ==
    [f EXCEPT ![i].data.block = [j \in DOMAIN @ |-> [@[j] EXCEPT !.value = BadHandleEncoding]]]

\* The file f after damage d.
Damaged(f, d) ==
    CASE d.kind = "none" -> f
      [] d.kind = "truncated" -> SubSeq(f, 1, d.at)
      [] d.kind = "unreadable" ->
            [f EXCEPT ![d.at] = [size |-> @.size, data |-> @.data, unreadable |-> TRUE]]
      [] d.kind = "magic" -> [f EXCEPT ![Len(f)].data.magic = "0x0"]
      [] d.kind = "footer_handle" ->
            [f EXCEPT ![Len(f)].data.index_handle = BadHandleEncoding]
      [] d.kind = "index_handle" ->
            [f EXCEPT ![Len(f)].data.index_handle.offset = @ + 1]
      [] d.kind = "metaindex_handle" ->
            [f EXCEPT ![Len(f)].data.metaindex_handle.offset = @ + 1]
      [] d.kind = "filter_handle_value" ->
            WithBadHandles(f, ChunkIndexAt(f, f[Len(f)].data.metaindex_handle.offset, 1, 0))
      [] d.kind = "index_value" ->
            WithBadHandles(f, ChunkIndexAt(f, f[Len(f)].data.index_handle.offset, 1, 0))

Damages(f) ==
    [kind : {"none", "magic", "footer_handle", "index_handle", "metaindex_handle",
             "filter_handle_value", "index_value"}, at : {0}]
    \cup [kind : {"truncated"}, at : 0..(Len(f) - 1)]
    \cup [kind : {"unreadable"}, at : 1..Len(f)]

InitOpen ==
    /\ IdleDBIter
    /\ IdleMerger
    /\ IdleExtra
    /\ \E o \in OpenOptions, keys \in OpenKeyLists, short \in {0, 1} :
         LET built == BuildKeys([rep |-> NewTableBuilder(o), blocks |-> << >>],
                                [failAt |-> 0, snappyPercent |-> 0], keys, short)
         IN  \E d \in Damages(built.rep.file) :
               /\ w = [built.rep EXCEPT !.file = Damaged(@, d)]
               /\ env = [failAt |-> 0, snappyPercent |-> 0, damage |-> d,
                         intact |-> built.rep.file]
               /\ added = [i \in 1..Len(keys) |-> <<keys[i], TableValue(keys[i], 100)>>]
               /\ blocks = built.blocks
               /\ finishStatus = built.rep.status
    /\ table = NoTable
    /\ titer = NoIter
    /\ tseen = << >>
    /\ got = NoGet
    /\ tOp = <<"new">>

TApproximateOffsetOf ==
    /\ table.opened
    /\ \E k \in 0..(MaxTableKey + 1) :
         approx' = [key |-> k, result |-> ApproximateOffsetOf(table, k)]
    /\ tOp' = <<"ApproximateOffsetOf">>
    /\ UNCHANGED <<w, env, added, blocks, finishStatus, table, titer, tseen, got,
                   dbVars, mVars, childStatus, stored, cache_, btables, heap, biters, bOp, twoVars, filterVars, stepVars>>

NextOpen ==
    \/ TOpen
    \/ TGet
    \/ TApproximateOffsetOf

SpecOpen == InitOpen /\ [][NextOpen]_vars

\* C12: Table::Open returns Corruption without reading the file when the
\* size is below the footer's length; on every return that is not ok *table
\* is null, and on ok it is a table.
C12_OpenNullUnlessOk ==
    table.status # <<"none">> =>
        /\ IsOk(table.status) <=> table.opened
        /\ ~IsOk(table.status) => table = [NoTable EXCEPT !.status = table.status,
                                                          !.reads = table.reads]
        /\ FileBytes(w.file) < kEncodedLength =>
              /\ table.status = Corruption("file is too short to be an sstable")
              /\ table.reads = << >>

\* The index block could not be read from a file long enough for a footer.
C12_Witness ==
    /\ FileBytes(w.file) >= kEncodedLength
    /\ table.status = IOError(0)
    /\ Len(table.reads) = 2
    /\ ~table.opened

\* Where the metaindex block and the filter block are in the file as written
\* (chunk numbers; each block is followed by its trailer), 0 for no filter.
MetaIndexChunk ==
    ChunkIndexAt(env.intact, env.intact[Len(env.intact)].data.metaindex_handle.offset, 1, 0)

FilterChunk == IF w.has_filter THEN MetaIndexChunk - 2 ELSE 0

\* Open ran with a filter policy on a file whose only damage, if any, is in
\* the metaindex block, the filter handle or the filter block, and one of
\* the steps towards the filter failed: reading the metaindex block, finding
\* the filter handle, decoding it, or reading the filter block.
MetaFailure ==
    /\ table.status # <<"none">>
    /\ table.opened => table.options.filter_policy # "null"
    /\ \/ env.damage.kind = "metaindex_handle"
       \/ env.damage.kind = "filter_handle_value" /\ w.has_filter
       \/ /\ env.damage.kind = "unreadable"
          /\ env.damage.at \in {MetaIndexChunk, MetaIndexChunk + 1}
                  \cup (IF w.has_filter THEN {FilterChunk, FilterChunk + 1} ELSE {})
       \/ /\ env.damage.kind = "none"
          /\ table.opened
          /\ table.options.filter_policy # w.options.filter_policy

\* What the data block selected for k yields with no filter consulted.
UnfilteredCalls(k) ==
    IF IndexFrom(k) = {} THEN << >>
    ELSE LET L == SelectedBlock(k).entries
             ge == {j \in 1..Len(L) : L[j].key >= k}
         IN  IF ge = {} THEN << >>
             ELSE LET j == CHOOSE n \in ge : \A m \in ge : n <= m
                  IN  <<[key |-> L[j].key, value |-> L[j].value]>>

\* C13: with a filter policy configured, a failure to read the metaindex
\* block, to find or decode the filter handle, or to read the filter block
\* does not change the result of Table::Open: it returns ok with a table
\* that has no filter, and InternalGet consults the data block for every key.
C13_MetaFailureIgnored ==
    MetaFailure =>
        /\ IsOk(table.status)
        /\ table.opened
        /\ ~table.filter.has_filter
        /\ got.status # <<"none">> =>
              (IsOk(got.status) /\ got.calls = UnfilteredCalls(got.k))

\* The filter block of a table built with the exact policy could not be
\* read, and a Get for a key that is not stored reached the data block.
C13_Witness ==
    /\ MetaFailure
    /\ w.options.filter_policy = "exact"
    /\ table.opened
    /\ table.options.filter_policy = "exact"
    /\ env.damage.kind = "unreadable"
    /\ env.damage.at = FilterChunk
    /\ got.status # <<"none">>
    /\ got.k \notin StoredKeys
    /\ got.calls # << >>

\* C20: Table::ApproximateOffsetOf(key) is the file offset of the data
\* block of the first index entry >= key when that entry exists and its
\* handle decodes, and the offset of the metaindex block when the key is
\* past the last index entry or the handle does not decode.
C20_ApproximateOffset ==
    (table.opened /\ approx # << >>) =>
        LET from == IndexFrom(approx.key)
            metaindex == w.file[Len(w.file)].data.metaindex_handle.offset
        IN  IF from = {} THEN approx.result = metaindex
            ELSE LET i == CHOOSE n \in from : \A m \in from : n <= m
                 IN  IF env.damage.kind = "index_value"
                     THEN approx.result = metaindex
                     ELSE /\ approx.result = table.index_block[i].value.offset
                          /\ env.damage.kind = "none" =>
                                approx.result = blocks[i].offset

\* The handle of the entry found did not decode, in a table of two blocks.
C20_Witness ==
    /\ table.opened
    /\ approx # << >>
    /\ env.damage.kind = "index_value"
    /\ Len(table.index_block) = 2
    /\ IndexFrom(approx.key) # {}
    /\ approx.result = table.metaindex_handle.offset
    /\ approx.result > 0

(***************************************************************************)
(* Changing the options of a TableBuilder in the middle of a build.  The   *)
(* build is not finished here: Finish names the filter by the policy of    *)
(* the current options, which ChangeOptions may have set to none while the *)
(* filter block is there.                                                  *)
(***************************************************************************)
ChangedOptions ==
    [block_size : BlockSizes,
     compression : {kNoCompression},
     filter_policy : {"null", "exact"},
     block_restart_interval : {4, 16},
     comparator : {"leveldb.BytewiseComparator", "reverse"}]

TBChangeOptions ==
    /\ ~w.closed
    /\ \E o \in ChangedOptions :
         /\ w' = ChangeOptions(w, o).rep
         /\ tOp' = <<"ChangeOptions", ChangeOptions(w, o).status, o>>
    /\ UNCHANGED <<env, added, blocks, finishStatus, table, titer, tseen, got,
                   dbVars, mVars, xVars>>

NextChangeOptions ==
    \/ TBAdd
    \/ TBFlush
    \/ TBAbandon
    \/ TBChangeOptions

SpecChangeOptions == InitTable /\ [][NextChangeOptions]_vars

\* Every call of the builder, over a file that may fail at any call; the
\* builder starts without compression, which ChangeOptions can only keep.
InitBuilderCalls ==
    /\ InitBuilder
    /\ w.options.compression = kNoCompression
    /\ w.options.filter_policy \in {"null", "exact"}

NextBuilderCalls ==
    \/ TBAdd
    \/ TBFlush
    \/ TBChangeOptions
    \/ TBFinish
    \/ TBAbandon

SpecBuilderCalls == InitBuilderCalls /\ [][NextBuilderCalls]_vars

\* The assertion of TableBuilder::Add on a pending index entry, and that of
\* TableBuilder::Flush before it writes, on a builder r.
AddAssertion(r) == r.pending_index_entry => r.data_block = << >>

FlushAssertion(r) == r.data_block # << >> => ~r.pending_index_entry

\* The builder at the Flush that Add(key, value) makes, when it makes one.
AtFlushOfAdd(r, key, len, sep) ==
    AddToBlock(AddToFilter(AddPending(r, sep), key), key, TableValue(key, len))

\* C32: in every state of the builder, after any calls of Add, Flush,
\* ChangeOptions, Finish and Abandon over a file that may fail at any
\* write, pending_index_entry is true only if the data block is empty; so
\* the assertion of Add holds for whatever key is added next, and that of
\* Flush holds both when Flush is called (by the caller or by Finish) and
\* at the Flush that Add makes after it appended its key.
C32_PendingOnlyWhenEmpty ==
    /\ w.pending_index_entry => w.data_block = << >>
    /\ AddAssertion(w)
    /\ FlushAssertion(w)
    /\ (~w.closed /\ IsOk(w.status)) =>
          \A key \in TableKeys, len \in ValueLengths :
              (w.num_entries > 0 => key > w.last_key) =>
                  \A sep \in (IF w.pending_index_entry
                               THEN w.last_key..(key - 1) ELSE {w.last_key}) :
                      FlushAssertion(AtFlushOfAdd(w, key, len, sep))

\* An index entry is pending for a block that was written, the file Flush
\* after it failed, and ChangeOptions was called since.
C32_Witness ==
    /\ w.pending_index_entry
    /\ w.data_block = << >>
    /\ w.offset > 0
    /\ ~IsOk(w.status)
    /\ tOp[1] = "ChangeOptions"

\* C14: TableBuilder::ChangeOptions with a comparator other than the
\* builder's returns InvalidArgument and leaves the builder's options as
\* they were; with the same comparator it returns OK and adopts the new
\* options, and the index block's restart interval is still 1.
C14_ChangeOptions ==
    [][tOp'[1] = "ChangeOptions" =>
          IF tOp'[3].comparator # w.options.comparator
          THEN /\ tOp'[2] = InvalidArgument("changing comparator while building table")
               /\ w' = w
          ELSE /\ tOp'[2] = OK
               /\ w'.options = tOp'[3]
               /\ w'.index_block_options.block_restart_interval = 1
               /\ w'.index_block_options =
                      [tOp'[3] EXCEPT !.block_restart_interval = 1]]_vars

\* New options with another restart interval were adopted after some keys.
C14_Witness ==
    /\ tOp[1] = "ChangeOptions"
    /\ tOp[2] = OK
    /\ w.options = tOp[3]
    /\ w.options.block_restart_interval = 4
    /\ w.index_block_options.block_restart_interval = 1
    /\ w.num_entries > 0

(***************************************************************************)
(* The type byte of one block, for every raw size and every length of the  *)
(* Snappy output.                                                          *)
(***************************************************************************)
MaxRawSize == 24    \* bytes of the raw block; the Snappy output may be longer

InitStored ==
    /\ IdleDBIter
    /\ IdleMerger
    /\ IdleTable
    /\ IdleApprox /\ IdleChildStatus /\ IdleBlockCache /\ IdleTwoLevel /\ IdleFilter
    /\ IdleSteps
    /\ stored \in [raw_size : BlockBytes(<< >>, 1)..MaxRawSize,
                   compressed_size : 1..(MaxRawSize + 2),
                   compression : {kNoCompression, kSnappyCompression},
                   supported : BOOLEAN,
                   written : {FALSE},
                   type : {kNoCompression}]

\* TableBuilder::WriteBlock decides the type of the block.
WriteBlockType ==
    /\ ~stored.written
    /\ stored' = [stored EXCEPT
                     !.written = TRUE,
                     !.type = StoredTypeFor(stored.compression, stored.supported,
                                            stored.compressed_size, stored.raw_size)]
    /\ UNCHANGED <<dbVars, mVars, tVars, approx, childStatus, cache_, btables, heap, biters, bOp, twoVars, filterVars, stepVars>>

SpecStored == InitStored /\ [][WriteBlockType]_vars

\* C17: with Snappy configured and succeeding, WriteBlock stores the block
\* compressed (type 1) exactly when compression saves at least 12.5 % of
\* the raw size, and otherwise raw with type 0.
C17_CompressedIffSavesEighth ==
    (stored # << >> /\ stored.written) =>
        IF /\ stored.compression = kSnappyCompression
           /\ stored.supported
           /\ 8 * (stored.raw_size - stored.compressed_size) >= stored.raw_size
        THEN stored.type = kSnappyCompression
        ELSE stored.type = kNoCompression

\* Snappy saved exactly one eighth of a block and the block was stored raw.
C17_Witness ==
    /\ stored # << >>
    /\ stored.written
    /\ stored.compression = kSnappyCompression
    /\ stored.supported
    /\ stored.raw_size > 0
    /\ 8 * (stored.raw_size - stored.compressed_size) = stored.raw_size
    /\ stored.type = kNoCompression

\* C18: every data block has its entry in the index block; the key of the
\* entry is >= every key of its block and < every key of the next block,
\* and the index keys are strictly increasing.
C18_IndexSeparators ==
    (TableBuilt /\ table.opened) =>
        /\ Len(table.index_block) = Len(blocks)
        /\ \A i \in 1..Len(blocks) :
              /\ table.index_block[i].value.offset = blocks[i].offset
              /\ \A j \in 1..Len(blocks[i].entries) :
                    blocks[i].entries[j].key <= table.index_block[i].key
              /\ i < Len(blocks) =>
                    /\ \A j \in 1..Len(blocks[i + 1].entries) :
                          table.index_block[i].key < blocks[i + 1].entries[j].key
                    /\ table.index_block[i].key < table.index_block[i + 1].key

\* A table of two blocks whose first separator is a shortened key, between
\* the last key of its block and the first key of the next.
C18_Witness ==
    /\ TableBuilt
    /\ table.opened
    /\ Len(blocks) = 2
    /\ Len(table.index_block) = 2
    /\ table.index_block[1].key > blocks[1].entries[Len(blocks[1].entries)].key
    /\ table.index_block[1].key < blocks[2].entries[1].key

(***************************************************************************)
(* MergingIterator::status over children that carry a status of their own. *)
(***************************************************************************)
\* The loop of MergingIterator::status from child i on.
MergerStatusLoop_NoBreak(S, i) == IF Len(S) = 0 THEN OK ELSE S[Len(S)]

RECURSIVE MergerStatusLoop(_, _)
MergerStatusLoop(S, i) ==
    IF i > Len(S) THEN OK
    ELSE IF ~IsOk(S[i]) THEN S[i]
    ELSE MergerStatusLoop(S, i + 1)

MergerStatus == MergerStatusLoop(childStatus, 1)

\* Every child is ok or has failed with an error of its own.
InitMergerStatus ==
    /\ \E n \in 2..MaxChildren :
           children_ \in {c \in [1..n -> UNION {ChildLists(i) : i \in 1..n}] :
                             \A i \in 1..n : c[i] \in ChildLists(i)}
    /\ childPos = [i \in 1..Len(children_) |-> 0]
    /\ current_ = 0
    /\ direction_ = "kForward"
    /\ cursor = 0
    /\ mOp = <<"new">>
    /\ mscan = <<"none">>
    /\ mout = << >>
    /\ IdleDBIter
    /\ IdleTable
    /\ IdleApprox /\ IdleStored /\ IdleBlockCache /\ IdleTwoLevel /\ IdleFilter
    /\ IdleSteps
    /\ childStatus \in {c \in [1..Len(children_) -> {OK} \cup {IOError(i) : i \in 1..Len(children_)}] :
                            \A i \in 1..Len(children_) : c[i] \in {OK, IOError(i)}}

SpecMergerStatus == InitMergerStatus /\ [][NextMerger]_vars

\* The children that are not ok.
FailedChildren == {i \in 1..Len(childStatus) : ~IsOk(childStatus[i])}

\* C19: MergingIterator::status() is ok exactly when every child is ok, and
\* is otherwise the status of the non-ok child with the lowest index, in
\* every state of the iteration.
C19_MergerStatus ==
    childStatus # << >> =>
        /\ IsOk(MergerStatus) <=> FailedChildren = {}
        /\ FailedChildren # {} =>
              \E i \in FailedChildren :
                  /\ \A j \in FailedChildren : i <= j
                  /\ MergerStatus = childStatus[i]

\* Both children have failed while the iterator stands on an entry.
C19_Witness ==
    /\ childStatus # << >>
    /\ FailedChildren = {1, 2}
    /\ MergerValid
    /\ mOp # <<"new">>
    /\ MergerStatus = childStatus[1]

(***************************************************************************)
(* Seeking in a table through its two-level iterator, new or already       *)
(* positioned.                                                             *)
(***************************************************************************)
\* The offset of the block the iterator holds, -1 when it holds none.
HeldBlock(it) == IF it.has_data THEN it.data_block_handle.offset ELSE -1

TSeek ==
    /\ table.opened
    /\ \E target \in 0..(MaxTableKey + 1) :
         LET before == IF titer.created THEN titer.it ELSE NewTwoLevelIterator
             it == TwoLevelSeek(table, w.file, AtCall(before), target)
         IN  /\ titer' = [created |-> TRUE, it |-> it]
             /\ tseen' = SeenAfter(it, << >>)
             /\ tOp' = <<"Seek", target, HeldBlock(before)>>
    /\ UNCHANGED <<w, env, added, blocks, finishStatus, table, got, dbVars, mVars, xVars>>

NextSeek ==
    \/ TBAdd
    \/ TBFlush
    \/ TBFinish
    \/ TBAbandon
    \/ TOpen
    \/ TSeek
    \/ TNext

SpecSeek == InitTable /\ [][NextSeek]_vars

\* The blocks a Seek(target) has to try: from the block of the first index
\* entry >= target to the first block from there on with an entry >= target,
\* or to the last block when there is none.
BlocksToTry(target) ==
    IF IndexFrom(target) = {} THEN {}
    ELSE LET sel == CHOOSE i \in IndexFrom(target) : \A j \in IndexFrom(target) : i <= j
         IN  {i \in sel..Len(blocks) :
                \A n \in sel..(i - 1) :
                    \A j \in 1..Len(blocks[n].entries) : blocks[n].entries[j].key < target}

\* The offsets of the blocks with the numbers of S, in file order.
OffsetsOf(S) ==
    LET sub == SelectSeq([i \in 1..Len(blocks) |-> i], LAMBDA i : i \in S)
    IN  [n \in 1..Len(sub) |-> blocks[sub[n]].offset]

\* C16: TwoLevelIterator::Seek(target) calls the block reader for the block
\* of the first index entry >= target (unless the iterator already holds
\* that block), for a later block only if every block tried so far has no
\* entry >= target, and for no block before the selected one.
C16_SeekReadsLazily ==
    (TableBuilt /\ table.opened /\ tOp[1] = "Seek") =>
        LET reads == [n \in 1..Len(titer.it.block_reads) |-> titer.it.block_reads[n].offset]
            due == OffsetsOf(BlocksToTry(tOp[2]))
        IN  IF due # << >> /\ due[1] = tOp[3]
            THEN reads = Tail(due)
            ELSE reads = due

\* A new iterator over a table of three blocks sought a key stored in the
\* first block and read that block only.
C16_Witness ==
    /\ TableBuilt
    /\ table.opened
    /\ tOp[1] = "Seek"
    /\ tOp[3] = -1
    /\ Len(blocks) = 3
    /\ \E j \in 1..Len(blocks[1].entries) : blocks[1].entries[j].key = tOp[2]
    /\ Len(titer.it.block_reads) = 1
    /\ titer.it.block_reads[1].offset = blocks[1].offset
    /\ TwoLevelValid(titer.it)
    /\ TwoLevelKey(titer.it) = tOp[2]

(***************************************************************************)
(* Table::BlockReader with a block cache (src/table/table.cc).  The cache  *)
(* itself is not part of the sources at hand; it is modelled as the        *)
(* specification describes it: a map from (cache_id, offset) to a block,   *)
(* with counted handles; an entry that has left the map is deleted, by the *)
(* deleter given to Insert, when its last handle is released.              *)
(* st is [cache, blocks_made]: the cache, [present, map, last_id], where   *)
(* map[key] is the number of the Block object cached for the key, 0 for    *)
(* none, and last_id the last id NewId gave out; and every Block object    *)
(* made so far, each with the file it was read from and its offset,        *)
(* whether it was inserted (cached) and is still in the map (in_cache),    *)
(* its handles outstanding (refs), and how often DeleteBlock and           *)
(* DeleteCachedBlock ran on it.  A cache handle is the number of its Block *)
(* object.  In the cache operations off is the key of the entry.           *)
(***************************************************************************)
MaxBlocks == 2          \* data blocks of a table, at offsets 1 .. MaxBlocks
MaxTables == 2          \* tables opened over the cache
MaxBlockObjects == 3    \* Block objects made in a behaviour
MaxLiveIters == 2       \* iterators alive at a time

\* EncodeFixed64 (util/coding.h): eight bytes, little-endian.
RECURSIVE FixedBytes(_, _)
FixedBytes(v, n) == IF n = 0 THEN << >> ELSE <<v % 256>> \o FixedBytes(v \div 256, n - 1)

EncodeFixed64(v) == FixedBytes(v, 8)

\* The cache key Table::BlockReader builds in cache_key_buffer.
CacheKey_OffsetOnly(cache_id, offset) == EncodeFixed64(0) \o EncodeFixed64(offset)

CacheKey(cache_id, offset) == EncodeFixed64(cache_id) \o EncodeFixed64(offset)

CacheKeys == {CacheKey(id, off) : id \in 0..MaxTables, off \in 1..MaxBlocks}

\* Cache::NewId: a new id, never given out before.
CacheNewId(c) == [cache |-> [c EXCEPT !.last_id = @ + 1], id |-> c.last_id + 1]

\* What Table::Open leaves in rep for the block reader: the file, and
\* cache_id, a new id of the block cache, 0 with no block cache.
OpenRep(c, file) ==
    IF c.present
    THEN [cache |-> CacheNewId(c).cache, rep |-> [file |-> file, cache_id |-> CacheNewId(c).id]]
    ELSE [cache |-> c, rep |-> [file |-> file, cache_id |-> 0]]

NewBlockObject(file, off) ==
    [file |-> file, offset |-> off, cached |-> FALSE, in_cache |-> FALSE, refs |-> 0,
     bad_release |-> FALSE, deleted_by_iter |-> 0, deleted_by_cache |-> 0]

\* DeleteBlock and DeleteCachedBlock: delete block.
DeleteBlock(st, block) == [st EXCEPT !.blocks_made[block].deleted_by_iter = @ + 1]

DeleteCachedBlock(st, block) == [st EXCEPT !.blocks_made[block].deleted_by_cache = @ + 1]

\* The cache drops an entry that is out of the map and has no handle left.
CacheUnref(st, n) ==
    IF st.blocks_made[n].refs = 0 /\ ~st.blocks_made[n].in_cache
    THEN DeleteCachedBlock(st, n)
    ELSE st

\* Cache::Erase of the entry for off, also what eviction does.
CacheErase(st, off) ==
    IF st.cache.map[off] = 0 THEN st
    ELSE CacheUnref([st EXCEPT !.cache.map[off] = 0,
                               !.blocks_made[st.cache.map[off]].in_cache = FALSE],
                    st.cache.map[off])

\* Cache::Lookup that hits: one more handle on the entry.
CacheLookup(st, off) == [st EXCEPT !.blocks_made[st.cache.map[off]].refs = @ + 1]

\* Cache::Insert of Block object n for off: the entry is in the map and the
\* caller holds one handle; an older entry for off leaves the map.
CacheInsert(st, off, n) ==
    [CacheErase(st, off) EXCEPT !.cache.map[off] = n,
                                !.blocks_made[n].cached = TRUE,
                                !.blocks_made[n].in_cache = TRUE,
                                !.blocks_made[n].refs = 1]

\* Cache::Release of a handle.
CacheRelease(st, n) ==
    IF st.blocks_made[n].refs = 0
    THEN [st EXCEPT !.blocks_made[n].bad_release = TRUE]
    ELSE CacheUnref([st EXCEPT !.blocks_made[n].refs = @ - 1], n)

\* ReleaseBlock: cache->Release(handle).
ReleaseBlock(st, handle) == CacheRelease(st, handle)

\* new Block(contents).
NewBlock(st, file, off) == [st EXCEPT !.blocks_made = Append(@, NewBlockObject(file, off))]

\* The cleanup Table::BlockReader registers on the iterator over block;
\* cache_handle is 0 for nullptr.
CleanupFor_DeleteAlways(block, cache_handle) == [fn |-> "DeleteBlock", arg |-> block]

CleanupFor(block, cache_handle) ==
    IF cache_handle = 0
    THEN [fn |-> "DeleteBlock", arg |-> block]
    ELSE [fn |-> "ReleaseBlock", arg |-> cache_handle]

\* block->NewIterator with its cleanup, and NewErrorIterator(s).
BlockIterator(block, cache_handle) ==
    [block |-> block, status |-> OK, cleanups |-> <<CleanupFor(block, cache_handle)>>]

ErrorIterator(st) == [block |-> 0, status |-> st, cleanups |-> << >>]

\* Table::BlockReader once the handle is decoded and the cache missed or is
\* absent: contents is what ReadBlock gives, [status, cachable].
BlockReaderRead(st, rep, off, fill_cache, contents) ==
    IF ~IsOk(contents.status)
    THEN [st |-> st, iter |-> ErrorIterator(contents.status), reads |-> 1]
    ELSE IF st.cache.present /\ contents.cachable /\ fill_cache
    THEN [st |-> CacheInsert(NewBlock(st, rep.file, off), CacheKey(rep.cache_id, off),
                             Len(st.blocks_made) + 1),
          iter |-> BlockIterator(Len(st.blocks_made) + 1, Len(st.blocks_made) + 1),
          reads |-> 1]
    ELSE [st |-> NewBlock(st, rep.file, off),
          iter |-> BlockIterator(Len(st.blocks_made) + 1, 0),
          reads |-> 1]

\* Table::BlockReader(options, index_value) of the table with this rep: the
\* cache and the Block objects afterwards, the iterator returned, and the
\* number of reads of the file (ReadBlock calls).
BlockReaderCached(st, rep, index_value, fill_cache, contents) ==
    IF ~IsOk(DecodeHandle(index_value).status)
    THEN [st |-> st, iter |-> ErrorIterator(DecodeHandle(index_value).status), reads |-> 0]
    ELSE IF st.cache.present
            /\ st.cache.map[CacheKey(rep.cache_id, DecodeHandle(index_value).handle.offset)] # 0
    THEN [st |-> CacheLookup(st, CacheKey(rep.cache_id, DecodeHandle(index_value).handle.offset)),
          iter |-> BlockIterator(
                       st.cache.map[CacheKey(rep.cache_id, DecodeHandle(index_value).handle.offset)],
                       st.cache.map[CacheKey(rep.cache_id, DecodeHandle(index_value).handle.offset)]),
          reads |-> 0]
    ELSE BlockReaderRead(st, rep, DecodeHandle(index_value).handle.offset, fill_cache, contents)

\* Iterator::~Iterator runs the cleanups registered.
RunCleanup(st, cl) ==
    IF cl.fn = "DeleteBlock" THEN DeleteBlock(st, cl.arg) ELSE ReleaseBlock(st, cl.arg)

RECURSIVE RunCleanups(_, _)
RunCleanups(st, cls) ==
    IF cls = << >> THEN st ELSE RunCleanups(RunCleanup(st, cls[1]), Tail(cls))

IndexValues ==
    {EncodeHandle([offset |-> off, size |-> 1]) : off \in 1..MaxBlocks} \cup {BadHandleEncoding}

ReadOutcomes ==
    {[status |-> OK, cachable |-> TRUE], [status |-> OK, cachable |-> FALSE],
     [status |-> IOError(0), cachable |-> FALSE]}

InitBlockCache ==
    /\ IdleDBIter
    /\ IdleMerger
    /\ IdleTable
    /\ IdleApprox /\ IdleChildStatus /\ IdleStored /\ IdleTwoLevel /\ IdleFilter
    /\ IdleSteps
    /\ cache_ \in [present : BOOLEAN, map : {[k \in CacheKeys |-> 0]}, last_id : {0}]
    /\ btables = << >>
    /\ heap = << >>
    /\ biters = << >>
    /\ bOp = <<"new">>

\* Table::Open, as far as the block reader is concerned; the file of the
\* n-th table opened is file n.
BOpen ==
    /\ Len(btables) < MaxTables
    /\ cache_' = OpenRep(cache_, Len(btables) + 1).cache
    /\ btables' = Append(btables, OpenRep(cache_, Len(btables) + 1).rep)
    /\ bOp' = <<"Open">>
    /\ UNCHANGED <<heap, biters, dbVars, mVars, tVars, approx, childStatus, stored,
                   twoVars, filterVars, stepVars>>

BRead ==
    /\ Len(heap) < MaxBlockObjects
    /\ Len(biters) < MaxLiveIters
    /\ \E t \in 1..Len(btables), v \in IndexValues, fill_cache \in BOOLEAN,
          contents \in ReadOutcomes :
         LET res == BlockReaderCached([cache |-> cache_, blocks_made |-> heap],
                                      btables[t], v, fill_cache, contents)
         IN  /\ cache_' = res.st.cache
             /\ heap' = res.st.blocks_made
             /\ biters' = Append(biters, res.iter)
             /\ bOp' = <<"BlockReader", fill_cache, t, v, contents, res.reads>>
    /\ UNCHANGED <<btables, dbVars, mVars, tVars, approx, childStatus, stored,
                   twoVars, filterVars, stepVars>>

BDrop ==
    /\ \E i \in 1..Len(biters) :
         LET res == RunCleanups([cache |-> cache_, blocks_made |-> heap], biters[i].cleanups)
         IN  /\ cache_' = res.cache
             /\ heap' = res.blocks_made
             /\ biters' = SubSeq(biters, 1, i - 1) \o SubSeq(biters, i + 1, Len(biters))
    /\ bOp' = <<"delete iterator">>
    /\ UNCHANGED <<btables, dbVars, mVars, tVars, approx, childStatus, stored,
                   twoVars, filterVars, stepVars>>

BEvict ==
    /\ cache_.present
    /\ \E off \in CacheKeys :
         /\ cache_.map[off] # 0
         /\ LET res == CacheErase([cache |-> cache_, blocks_made |-> heap], off)
            IN  /\ cache_' = res.cache
                /\ heap' = res.blocks_made
    /\ bOp' = <<"evict">>
    /\ UNCHANGED <<btables, biters, dbVars, mVars, tVars, approx, childStatus, stored,
                   twoVars, filterVars, stepVars>>

NextBlockCache ==
    \/ BOpen
    \/ BRead
    \/ BDrop
    \/ BEvict

SpecBlockCache == InitBlockCache /\ [][NextBlockCache]_vars

\* The live iterators over Block object n, and those that hold a handle.
ItersOver(n) == {i \in 1..Len(biters) : biters[i].block = n}

HandleHolders(n) ==
    {i \in 1..Len(biters) :
        \E c \in 1..Len(biters[i].cleanups) :
            biters[i].cleanups[c] = [fn |-> "ReleaseBlock", arg |-> n]}

\* C15: every iterator Table::BlockReader returns over a real block has
\* exactly one cleanup, which releases the cache handle if one was obtained
\* and otherwise deletes the block; over any sequence of BlockReader calls,
\* iterator drops and evictions, every handle is released exactly once,
\* every uncached block is deleted exactly once, by its iterator, and no
\* block owned by the cache is deleted by an iterator.
C15_BlockOwnership ==
    /\ \A i \in 1..Len(biters) :
          biters[i].block # 0 =>
              /\ Len(biters[i].cleanups) = 1
              /\ biters[i].cleanups[1] =
                    IF heap[biters[i].block].cached
                    THEN [fn |-> "ReleaseBlock", arg |-> biters[i].block]
                    ELSE [fn |-> "DeleteBlock", arg |-> biters[i].block]
    /\ \A n \in 1..Len(heap) :
          /\ ~heap[n].bad_release
          /\ heap[n].refs = Cardinality(HandleHolders(n))
          /\ heap[n].deleted_by_iter + heap[n].deleted_by_cache <= 1
          /\ ItersOver(n) # {} => heap[n].deleted_by_iter + heap[n].deleted_by_cache = 0
          /\ heap[n].cached => heap[n].deleted_by_iter = 0
          /\ ~heap[n].cached =>
                /\ heap[n].deleted_by_cache = 0
                /\ ItersOver(n) = {} => heap[n].deleted_by_iter = 1
                /\ Cardinality(ItersOver(n)) <= 1

\* With a cache: a block that was cached has left the cache and been deleted
\* by it, an uncached block has been deleted by its iterator, and no
\* iterator is left.
C15_Witness ==
    /\ cache_ # << >>
    /\ cache_.present
    /\ biters = << >>
    /\ \E n \in 1..Len(heap) : heap[n].cached /\ heap[n].deleted_by_cache = 1
    /\ \E n \in 1..Len(heap) : ~heap[n].cached /\ heap[n].deleted_by_iter = 1
    /\ \A n \in 1..Len(heap) : heap[n].refs = 0

\* The last step was a Table::BlockReader call of a table with a block cache
\* whose index value decoded; what it was called with, and what it found.
BlockReaderCalled ==
    /\ cache_.present
    /\ Len(biters') = Len(biters) + 1
    /\ IsOk(DecodeHandle(bOp'[4]).status)

CalledRep == btables[bOp'[3]]

CalledOffset == DecodeHandle(bOp'[4]).handle.offset

CalledKey == CacheKey(CalledRep.cache_id, CalledOffset)

LookupHit == cache_.map[CalledKey] # 0

FileReads == bOp'[6]

Returned == biters'[Len(biters')]

\* The entries of the cache are blocks of the table and offset of their key.
CacheHoldsOwnBlocks ==
    cache_ # << >> =>
        /\ \A i, j \in 1..Len(btables) :
              cache_.present /\ i # j => btables[i].cache_id # btables[j].cache_id
        /\ \A k \in CacheKeys :
              cache_.present /\ cache_.map[k] # 0 =>
                  \E i \in 1..Len(btables) :
                      /\ heap[cache_.map[k]].file = btables[i].file
                      /\ k = CacheKey(btables[i].cache_id, heap[cache_.map[k]].offset)

\* C31: with a block cache, Table::BlockReader reads the file if and only
\* if the lookup of the key (cache_id, offset) misses; on a hit it returns
\* an iterator over the cached block and makes no block; on a miss the
\* block read is inserted only if its contents are cachable and fill_cache
\* is set; and the block returned is always one read from the file of the
\* calling table at the offset asked for, so that two tables with different
\* cache ids never obtain each other's blocks, even at equal offsets.
C31_BlockCacheUse ==
    /\ [](CacheHoldsOwnBlocks)
    /\ [][BlockReaderCalled =>
            /\ (FileReads = 1) <=> ~LookupHit
            /\ FileReads \in {0, 1}
            /\ LookupHit =>
                  /\ Returned.block = cache_.map[CalledKey]
                  /\ Len(heap') = Len(heap)
                  /\ cache_'.map = cache_.map
            /\ ~LookupHit =>
                  /\ (cache_'.map[CalledKey] # 0) <=>
                        (IsOk(bOp'[5].status) /\ bOp'[5].cachable /\ bOp'[2])
                  /\ cache_'.map[CalledKey] # 0 =>
                        cache_'.map = [cache_.map EXCEPT ![CalledKey] = Len(heap')]
                  /\ cache_'.map[CalledKey] = 0 => cache_'.map = cache_.map
            /\ Returned.block # 0 =>
                  /\ heap'[Returned.block].file = CalledRep.file
                  /\ heap'[Returned.block].offset = CalledOffset
        ]_vars

\* The second table has just hit the cache at an offset for which the cache
\* holds a block of the first table too: it got its own block.
C31_Witness ==
    /\ cache_ # << >>
    /\ cache_.present
    /\ Len(btables) = 2
    /\ bOp[1] = "BlockReader"
    /\ bOp[3] = 2
    /\ bOp[6] = 0
    /\ IsOk(DecodeHandle(bOp[4]).status)
    /\ cache_.map[CacheKey(btables[1].cache_id, DecodeHandle(bOp[4]).handle.offset)] # 0
    /\ cache_.map[CacheKey(btables[2].cache_id, DecodeHandle(bOp[4]).handle.offset)] # 0
    /\ biters # << >>
    /\ biters[Len(biters)].block =
          cache_.map[CacheKey(btables[2].cache_id, DecodeHandle(bOp[4]).handle.offset)]
    /\ heap[biters[Len(biters)].block].file = 2

(***************************************************************************)
(* A TwoLevelIterator over an index made by hand: data blocks that may be  *)
(* empty, index keys that bound their blocks, and, for the claims about    *)
(* status(), blocks the block function fails on and an index entry the     *)
(* index iterator cannot parse.                                            *)
(***************************************************************************)
MaxTwoBlocks == 3   \* data blocks under the index: 1 .. MaxTwoBlocks

KeysPerBlock == 2   \* block i holds keys out of KeysPerBlock*(i-1)+1 .. KeysPerBlock*i

BlockKinds == {"ok", "unreadable", "contents"}

\* The entries of block i that holds the keys numbered ks of its range.
TwoEntries(i, ks) ==
    SortByKey({[key |-> KeysPerBlock * (i - 1) + j, value |-> <<"v", KeysPerBlock * (i - 1) + j>>] :
                  j \in ks})

\* The chunk of a data block, its trailer and its index entry, at offset off.
TwoChunk(L, kind) ==
    LET c == [size |-> 2 * kBlockTrailerSize + Len(L),
              data |-> [block |-> L,
                        enc |-> IF kind = "contents" THEN "garbled" ELSE "raw"]]
    IN  IF kind = "unreadable"
        THEN [size |-> c.size, data |-> c.data, unreadable |-> TRUE]
        ELSE c

TwoTrailer(chunk) ==
    [size |-> kBlockTrailerSize,
     data |-> [type |-> kNoCompression, crc |-> BlockCrc(chunk, kNoCompression)]]

TwoIndexEntry(i, chunk, kind, off, corrupt) ==
    LET v == IF kind = "handle" THEN BadHandleEncoding
             ELSE EncodeHandle([offset |-> off, size |-> chunk.size])
    IN  IF corrupt THEN [key |-> KeysPerBlock * i, value |-> v, corrupt |-> TRUE]
        ELSE [key |-> KeysPerBlock * i, value |-> v]

\* The file and the index of the blocks i.. : ks[i] the keys of block i,
\* kd[i] what is wrong with it, c the index entry that cannot be parsed.
RECURSIVE TwoBuild(_, _, _, _, _)
TwoBuild(ks, kd, c, i, acc) ==
    IF i > Len(ks) THEN acc
    ELSE TwoBuild(ks, kd, c, i + 1,
             [file |-> acc.file \o <<TwoChunk(TwoEntries(i, ks[i]), kd[i]),
                                     TwoTrailer(TwoChunk(TwoEntries(i, ks[i]), kd[i]))>>,
              index_block |-> Append(acc.index_block,
                                  TwoIndexEntry(i, TwoChunk(TwoEntries(i, ks[i]), kd[i]),
                                                kd[i], acc.offset, c = i)),
              offset |-> acc.offset + TwoChunk(TwoEntries(i, ks[i]), kd[i]).size
                             + kBlockTrailerSize])

\* The concatenation of the blocks of index entries i.. as the block function
\* returns them.
RECURSIVE ConcatFrom(_, _, _)
ConcatFrom(tb, f, i) ==
    IF i > Len(tb.index_block) THEN << >>
    ELSE BlockReader(f, tb.index_block[i].value).entries \o ConcatFrom(tb, f, i + 1)

Concat == ConcatFrom(tlTable, tlFile, 1)

InitTwoLevelOf(keysets, kinds, corrupts) ==
    /\ \E n \in 1..MaxTwoBlocks :
         \E ks \in [1..n -> keysets], kd \in [1..n -> kinds], c \in corrupts \cap (0..n) :
            /\ tlTable = [index_block |-> TwoBuild(ks, kd, c, 1,
                              [file |-> << >>, index_block |-> << >>, offset |-> 0]).index_block]
            /\ tlFile = TwoBuild(ks, kd, c, 1,
                              [file |-> << >>, index_block |-> << >>, offset |-> 0]).file
    /\ tl = NewTwoLevelIterator
    /\ tlCursor = 0
    /\ tlOp = <<"new">>
    /\ tlFirst = OK
    /\ IdleDBIter
    /\ IdleMerger
    /\ IdleTable
    /\ IdleApprox /\ IdleChildStatus /\ IdleStored /\ IdleBlockCache /\ IdleFilter
    /\ IdleSteps

\* Every block readable, any of them empty.
InitTwoLevel == InitTwoLevelOf(SUBSET (1..KeysPerBlock), {"ok"}, {0})

\* Blocks empty or full, any of them failing, any index entry unparsable.
InitTwoLevelStatus ==
    InitTwoLevelOf({{}, 1..KeysPerBlock}, BlockKinds, 0..MaxTwoBlocks)

\* The first non-ok status of a call that left the iterator as it: that of
\* the first failing data iterator the block function returned, else that of
\* the index iterator (which fails last: the call ends when it does).
FirstErrorIn(it) ==
    LET bad == {i \in 1..Len(it.block_reads) :
                   ~IsOk(BlockReader(tlFile, it.block_reads[i]).status)}
    IN  IF bad # {}
        THEN BlockReader(tlFile, it.block_reads[CHOOSE i \in bad : \A j \in bad : i <= j]).status
        ELSE it.index_status

\* What the iterator holds when a call starts.
Before == <<tl.has_data, tl.data_block_handle, tl.data, tl.data_pos>>

\* The bookkeeping of a call that leaves the iterator as it and the cursor at cur.
TwoStep(it, cur) ==
    /\ tl' = it
    /\ tlCursor' = cur
    /\ tlFirst' = IF IsOk(tlFirst) THEN FirstErrorIn(it) ELSE tlFirst
    /\ UNCHANGED <<tlTable, tlFile, dbVars, mVars, tVars, approx, childStatus, stored,
                   cache_, btables, heap, biters, bOp, filterVars, stepVars>>

TLSeekToFirst ==
    /\ tlOp' = <<"SeekToFirst", 0>> \o Before
    /\ TwoStep(TwoLevelSeekToFirst(tlTable, tlFile, AtCall(tl)), ListSeekToFirst(Concat))

TLSeekToLast ==
    /\ tlOp' = <<"SeekToLast", 0>> \o Before
    /\ TwoStep(TwoLevelSeekToLast(tlTable, tlFile, AtCall(tl)), ListSeekToLast(Concat))

TLSeek ==
    \E target \in 0..(KeysPerBlock * MaxTwoBlocks + 1) :
        /\ tlOp' = <<"Seek", target>> \o Before
        /\ TwoStep(TwoLevelSeek(tlTable, tlFile, AtCall(tl), target),
                   ListSeek(Concat, target))

TLNext ==
    /\ TwoLevelValid(tl)
    /\ tlOp' = <<"Next", 0>> \o Before
    /\ TwoStep(TwoLevelNext(tlTable, tlFile, AtCall(tl)),
               IF tlCursor # 0 THEN ListNext(Concat, tlCursor) ELSE 0)

TLPrev ==
    /\ TwoLevelValid(tl)
    /\ tlOp' = <<"Prev", 0>> \o Before
    /\ TwoStep(TwoLevelPrev(tlTable, tlFile, AtCall(tl)),
               IF tlCursor # 0 THEN ListPrev(Concat, tlCursor) ELSE 0)

NextTwoLevel == TLSeekToFirst \/ TLSeekToLast \/ TLSeek \/ TLNext \/ TLPrev

SpecTwoLevel == InitTwoLevel /\ [][NextTwoLevel]_vars

SpecTwoLevelStatus == InitTwoLevelStatus /\ [][NextTwoLevel]_vars

\* Block i of the index is empty.
EmptyBlock(i) == BlockReader(tlFile, tlTable.index_block[i].value).entries = << >>

\* C25: after any sequence of SeekToFirst, SeekToLast, Seek, Next and Prev
\* (Next and Prev while Valid() only) over an index whose blocks may be empty
\* and whose keys bound their blocks, the TwoLevelIterator is valid exactly
\* when a cursor moved by the same calls over the concatenation of the blocks
\* is valid, and key() and value() are then the entry under that cursor; so
\* an empty block never ends the iteration while an entry remains beyond it.
C25_TwoLevelEqualsConcatenation ==
    /\ TwoLevelValid(tl) <=> tlCursor # 0
    /\ TwoLevelValid(tl) => /\ TwoLevelKey(tl) = Concat[tlCursor].key
                            /\ TwoLevelValue(tl) = Concat[tlCursor].value

\* Prev has stepped back over an empty block.
C25_Witness ==
    /\ tlOp[1] = "Prev" /\ TwoLevelValid(tl)
    /\ \E j \in (tl.index_pos + 1)..Len(tlTable.index_block) :
           /\ EmptyBlock(j)
           /\ Concat[tlCursor + 1].key > tlTable.index_block[j].key
\* What the last call found: whether a data iterator was open, the handle
\* bytes saved, the data iterator and its position.
HadData == tlOp[3]

HandleBefore == tlOp[4]

DataBefore == tlOp[5]

\* The block function was called only with an index value that differs from
\* the handle saved at that moment, or with no data iterator open.
ReadsOnlyOnChange ==
    \A i \in 1..Len(tl.block_reads) :
        IF i = 1 THEN ~(HadData /\ tl.block_reads[1] = HandleBefore)
        ELSE tl.block_reads[i] # tl.block_reads[i - 1]

\* The index entry the index iterator of the last call was first put on; a
\* Next or Prev starts in the open block.
LandsInOpenBlock ==
    LET p == CASE tlOp[1] = "Seek" -> BlockSeek(tlTable.index_block, tlOp[2])
               [] tlOp[1] = "SeekToFirst" -> BlockSeekToFirst(tlTable.index_block)
               [] tlOp[1] = "SeekToLast" -> BlockSeekToLast(tlTable.index_block)
               [] OTHER -> 0
    IN  /\ HadData
        /\ tlOp[1] \in {"Next", "Prev"}
              \/ (p # 0 /\ tlTable.index_block[p].value = HandleBefore)

\* C26: InitDataBlock calls the block function only when there is no data
\* iterator or the index value differs from the saved handle bytes; a call
\* that lands in the block that was open before it and ends there has read
\* no block and kept the data iterator; and whenever the iterator is valid the index iterator
\* is valid and the data iterator is the one built from its current value.
C26_InitDataBlock ==
    tlOp[1] \notin {"new", "idle"} =>
        /\ ReadsOnlyOnChange
        /\ (LandsInOpenBlock /\ tl.has_data /\ tl.data_block_handle = HandleBefore) =>
               /\ tl.block_reads = << >>
               /\ tl.data = DataBefore
        /\ TwoLevelValid(tl) =>
               /\ tl.index_pos # 0
               /\ tl.data_block_handle = tlTable.index_block[tl.index_pos].value
               /\ tl.data = BlockReader(tlFile, tl.data_block_handle)

\* A Seek that moved within the block already open.
C26_Witness ==
    /\ tlOp[1] = "Seek" /\ HadData /\ TwoLevelValid(tl)
    /\ tl.data_block_handle = HandleBefore
    /\ tl.block_reads = << >>
    /\ tl.data_pos # tlOp[6]
\* C27 as stated: once the index iterator or a data iterator has had a non-ok
\* status, status() returns that first error after every later call.
C27_StatusIsFirstError == ~IsOk(tlFirst) => TwoLevelStatus(tl) = tlFirst
\* A data iterator failed first, the index iterator later, and status()
\* returns the later error.
C27_Witness ==
    /\ ~IsOk(tlFirst) /\ ~IsOk(tl.index_status)
    /\ tl.status_ = tlFirst
    /\ TwoLevelStatus(tl) = tl.index_status
    /\ TwoLevelStatus(tl) # tlFirst

\* What status() does report: the index iterator's error when it has one,
\* else the first error a data iterator had.
StatusIndexThenFirstData ==
    /\ IsOk(tlFirst) => IsOk(TwoLevelStatus(tl))
    /\ ~IsOk(tl.index_status) => TwoLevelStatus(tl) = tl.index_status
    /\ (IsOk(tl.index_status) /\ ~IsOk(tlFirst)) => TwoLevelStatus(tl) = tlFirst
(***************************************************************************)
(* A FilterBlockReader over given contents, well-formed or not: filter     *)
(* data, an offset array, the word that places the array and the base_lg   *)
(* byte, or fewer than five bytes.                                         *)
(***************************************************************************)
MaxFilterData == 2    \* bytes of filter data in the contents: 0 .. MaxFilterData

MaxFilters == 2       \* entries of the offset array: 0 .. MaxFilters

MaxOffsetValue == 3   \* the entries of the offset array: 0 .. MaxOffsetValue

MaxShort == 4         \* contents too short to hold the array word and base_lg

\* The sequences over S of length 0 .. n.
SeqsUpTo(S, n) == UNION {[1..m -> S] : m \in 0..n}

FilterDataBytes == {PolicyHash("exact", 1), PolicyHash("mod2", 1)}

FramedContents ==
    {d \o PutOffsets(offs) \o PutFixed32(word) \o <<kFilterBaseLg>> :
        d \in SeqsUpTo(FilterDataBytes, MaxFilterData),
        offs \in SeqsUpTo(0..MaxOffsetValue, MaxFilters),
        word \in 0..(MaxFilterData + 4 * MaxFilters + 1)}

ShortContents == SeqsUpTo({0, kFilterBaseLg}, MaxShort)

InitFilterReader ==
    /\ \E policy \in {"exact", "mod2", "always"}, contents \in FramedContents \cup ShortContents :
           freader = [policy |-> policy, contents |-> contents,
                      reader |-> NewFilterBlockReader(policy, contents)]
    /\ fquery = << >>
    /\ IdleDBIter
    /\ IdleMerger
    /\ IdleTable
    /\ IdleApprox /\ IdleChildStatus /\ IdleStored /\ IdleBlockCache /\ IdleTwoLevel
    /\ IdleSteps

FKeyMayMatch ==
    /\ \E i \in 0..MaxFilters, within \in {0, 1}, key \in 1..2 :
           fquery' = [block_offset |-> i * kFilterBase + within, key |-> key,
                      result |-> FilterKeyMayMatch(freader.reader,
                                                   i * kFilterBase + within, key)]
    /\ UNCHANGED <<freader, dbVars, mVars, tVars, approx, childStatus, stored,
                   cache_, btables, heap, biters, bOp, twoVars, stepVars>>

NextFilterReader == FKeyMayMatch

SpecFilterReader == InitFilterReader /\ [][NextFilterReader]_vars

\* What the last KeyMayMatch was asked about, read from the contents: the
\* window index, whether the reader holds an offset array with that window,
\* and the window's two offsets.
QIndex == fquery.block_offset \div (2 ^ freader.reader.base_lg)

QHasWindow == freader.reader.has_data /\ QIndex < freader.reader.num

QStart == DecodeFixed32(freader.contents, freader.reader.offset + QIndex * 4)

QLimit == DecodeFixed32(freader.contents, freader.reader.offset + QIndex * 4 + 4)

\* C28 as stated: KeyMayMatch returns false for every key whenever
\* block_offset falls in a window whose filter is empty (start == limit in
\* the offset array), whatever the filter policy would answer.
C28_EmptyFilterIsNegative ==
    (fquery # << >> /\ QHasWindow /\ QStart = QLimit) => fquery.result = FALSE

\* An empty filter inside the filter data, and KeyMayMatch returned true.
C28_Witness ==
    /\ fquery # << >> /\ QHasWindow
    /\ QStart = QLimit /\ QLimit <= freader.reader.offset
    /\ freader.policy = "always"
    /\ fquery.result = TRUE

\* The last KeyMayMatch met malformed input: contents shorter than 5 bytes,
\* an array word above n - 5, a window index not below the number of
\* filters, or window offsets with start > limit or limit beyond the start
\* of the offset array.
QMalformed ==
    \/ Len(freader.contents) < 5
    \/ DecodeFixed32(freader.contents, Len(freader.contents) - 5) > Len(freader.contents) - 5
    \/ ~(QIndex < freader.reader.num)
    \/ QStart > QLimit
    \/ QLimit > freader.reader.offset

\* C29 as stated: KeyMayMatch returns true for every key on malformed input.
C29_MalformedIsPositive ==
    (fquery # << >> /\ QMalformed) => fquery.result = TRUE

\* A window whose two offsets are equal and lie beyond the start of the
\* offset array, and KeyMayMatch returned false.
C29_Witness ==
    /\ fquery # << >> /\ QHasWindow
    /\ QStart = QLimit /\ QLimit > freader.reader.offset
    /\ fquery.result = FALSE

\* What does hold: every malformed input but that one is a possible match.
MalformedIsPositiveUnlessEqual ==
    (fquery # << >> /\ QMalformed /\ ~(QHasWindow /\ QStart = QLimit)) => fquery.result = TRUE
(***************************************************************************)
(* Filter window accounting of a TableBuilder.                             *)
(***************************************************************************)
\* Filter number i (from 0) of the filter builder fb, as emitted so far.
EmittedFilter(fb, i) ==
    SubSeq(fb.result, fb.filter_offsets[i + 1] + 1,
           IF i + 2 <= Len(fb.filter_offsets) THEN fb.filter_offsets[i + 2]
           ELSE Len(fb.result))

\* The key is in filter number i of the builder r: in the filter emitted, or
\* among the keys waiting for it when it is the next one to emit.
KeyInFilter(r, i, key) ==
    IF i < Len(r.filter_block.filter_offsets)
    THEN \E j \in 1..Len(EmittedFilter(r.filter_block, i)) :
             EmittedFilter(r.filter_block, i)[j] = PolicyHash(r.filter_block_policy, key)
    ELSE /\ i = Len(r.filter_block.filter_offsets)
         /\ \E j \in 1..Len(r.filter_block.keys) : r.filter_block.keys[j] = key

\* After the StartBlock(r.offset) that ended the last call: the filters
\* emitted are floor(offset / 2048), and every key of a block at offset o is
\* in filter number floor(o / 2048).
WindowsAccounted(r, bs) ==
    /\ Len(r.filter_block.filter_offsets) = r.offset \div kFilterBase
    /\ \A i \in 1..Len(bs) : \A j \in 1..Len(bs[i].entries) :
           KeyInFilter(r, bs[i].offset \div kFilterBase, bs[i].entries[j].key)
    /\ IsOk(r.status) =>
           \A j \in 1..Len(r.data_block) :
               KeyInFilter(r, r.offset \div kFilterBase, r.data_block[j].key)

\* The builder as the StartBlock of the step's Flush left it: Finish goes on
\* to write the rest of the file.
AfterStartBlock == IF tOp'[1] = "Finish" THEN Flush(w, env) ELSE w'

\* C30: after every StartBlock(offset) that TableBuilder makes (in the
\* constructor, in every Flush, a Flush whose write failed included) the
\* number of filters emitted is floor(offset / 2048); at the call
\* floor(offset / 2048) is not less than the number of filters emitted
\* before it; and the keys added between StartBlock(o) and the next
\* StartBlock are in filter number floor(o / 2048).
C30_FilterWindows ==
    /\ []((w.has_filter /\ ~w.closed) => WindowsAccounted(w, blocks))
    /\ [][(w.has_filter /\ ~w.closed /\ tOp'[1] \in {"Add", "Flush", "Finish"}) =>
             /\ AfterStartBlock.offset \div kFilterBase
                    >= Len(w.filter_block.filter_offsets)
             /\ WindowsAccounted(AfterStartBlock, blocks')]_vars

\* A Flush whose file Flush failed after the block was written, into a later
\* window, with an empty filter emitted for a window no block starts in.
C30_Witness ==
    /\ w.has_filter /\ ~w.closed /\ ~IsOk(w.status)
    /\ tOp[1] \in {"Add", "Flush"}
    /\ Len(blocks) >= 2
    /\ Len(w.filter_block.filter_offsets) >= 2
    /\ \E i \in 1..(Len(w.filter_block.filter_offsets) - 1) :
           w.filter_block.filter_offsets[i] = w.filter_block.filter_offsets[i + 1]

(***************************************************************************)
(* The index entries of a TableBuilder against the data blocks it wrote.   *)
(***************************************************************************)
\* The handle of the i-th data block written: where its chunk starts in the
\* file, and the length of the chunk without its trailer.
BlockHandleOf(i) ==
    [offset |-> blocks[i].offset,
     size |-> w.file[ChunkIndexAt(w.file, blocks[i].offset, 1, 0)].size]

HandlesOfBlocks(n) == [i \in 1..n |-> BlockHandleOf(i)]

\* The handles the entries of an index block carry, in order.
IndexHandles(L) == [i \in 1..Len(L) |-> DecodeHandle(L[i].value).handle]

\* The index block a successful Finish wrote, found through the footer.
FinishedIndex ==
    w.file[ChunkIndexAt(w.file, w.file[Len(w.file)].data.index_handle.offset, 1, 0)].data.block

\* The data blocks that still wait for their index entry.
Awaiting == IF w.pending_index_entry THEN 1 ELSE 0

\* Before Finish (and after Abandon) the index block holds the handles of
\* the blocks written, in order, but for the last while it is pending; the
\* index block of a finished table holds them all.
IndexFollowsBlocks ==
    /\ finishStatus = <<"none">> =>
          /\ Awaiting <= Len(blocks)
          /\ IndexHandles(w.index_block) = HandlesOfBlocks(Len(blocks) - Awaiting)
          /\ w.pending_index_entry => w.pending_handle = BlockHandleOf(Len(blocks))
    /\ TableBuilt =>
          /\ Len(FinishedIndex) = Len(blocks)
          /\ IndexHandles(FinishedIndex) = HandlesOfBlocks(Len(blocks))
    /\ \A i \in 1..Len(blocks) : blocks[i].entries # << >>

\* A step that emits an index entry before Finish is an Add that found an
\* entry pending: it emits exactly the entry of the pending handle, and the
\* key it adds goes to a later block: the one under construction, one the
\* Add itself wrote, or one the Add failed to write, which gets no entry.
EmittedByAdd ==
    (finishStatus' = <<"none">> /\ w'.index_block # w.index_block) =>
        /\ tOp'[1] = "Add"
        /\ w.pending_index_entry
        /\ w.data_block = << >>
        /\ Len(w'.index_block) = Len(w.index_block) + 1
        /\ SubSeq(w'.index_block, 1, Len(w.index_block)) = w.index_block
        /\ DecodeHandle(w'.index_block[Len(w'.index_block)].value).handle = w.pending_handle
        /\ w.pending_handle = BlockHandleOf(Len(blocks))
        /\ \/ /\ blocks' = blocks
              /\ w'.data_block # << >>
              /\ w'.data_block[1].key = w'.last_key
           \/ /\ Len(blocks') = Len(blocks) + 1
              /\ blocks'[Len(blocks')].offset > w.pending_handle.offset
              /\ blocks'[Len(blocks')].entries[1].key = w'.last_key
              /\ w'.data_block = << >>
           \/ /\ blocks' = blocks
              /\ w'.data_block = << >>
              /\ ~IsOk(w'.status)
              /\ ~w'.pending_index_entry

\* C33: every data block written gets one index entry, which carries its
\* handle: the index entries are, in order, the handles of the blocks
\* written, the last block waiting while its entry is pending; an entry is
\* emitted by the Add that follows the block, before that Add's key goes
\* to the next block, or by Finish; after a successful Finish the index
\* block has as many entries as data blocks were written.
C33_DeferredIndex ==
    /\ [](IndexFollowsBlocks)
    /\ [][EmittedByAdd]_vars

\* A finished table of two blocks or more: the entry of the first block was
\* emitted by an Add, that of the last by Finish.
C33_Witness ==
    /\ TableBuilt
    /\ tOp[1] = "Finish"
    /\ Len(blocks) >= 2
    /\ Len(FinishedIndex) = Len(blocks)
    /\ IndexHandles(FinishedIndex)[2] = BlockHandleOf(2)

(***************************************************************************)
(* FileSize() and the handles of a TableBuilder against the bytes that     *)
(* reached the file.                                                       *)
(***************************************************************************)
\* Handle h names a block of the file: contents of h.size bytes that start
\* at byte h.offset, followed by their trailer.
HandleFits(h) ==
    /\ ChunkIndexAt(w.file, h.offset, 1, 0) # 0
    /\ ChunkIndexAt(w.file, h.offset, 1, 0) + 1 <= Len(w.file)
    /\ w.file[ChunkIndexAt(w.file, h.offset, 1, 0)].size = h.size
    /\ IsTrailer(w.file[ChunkIndexAt(w.file, h.offset, 1, 0) + 1])
    /\ w.file[ChunkIndexAt(w.file, h.offset, 1, 0) + 1].size = kBlockTrailerSize

\* The block that h names, and the one written right after it.
BlockAt(h) == w.file[ChunkIndexAt(w.file, h.offset, 1, 0)].data.block

NextOffset(h) == h.offset + h.size + kBlockTrailerSize

Footer == w.file[Len(w.file)].data

\* The handles a finished table holds: those of its index block, the two
\* of the footer, and that of the filter block in the metaindex block.
FinishedHandles ==
    {IndexHandles(FinishedIndex)[i] : i \in 1..Len(FinishedIndex)}
        \cup {Footer.index_handle, Footer.metaindex_handle}
        \cup {DecodeHandle(BlockAt(Footer.metaindex_handle)[i].value).handle :
                 i \in 1..Len(BlockAt(Footer.metaindex_handle))}

OffsetsAccount ==
    /\ IsOk(w.status) => FileSize(w) = FileBytes(w.file)
    /\ \A i \in 1..Len(w.index_block) : HandleFits(DecodeHandle(w.index_block[i].value).handle)
    /\ w.pending_index_entry => HandleFits(w.pending_handle)
    /\ \A i \in 1..Len(blocks) :
          /\ HandleFits(BlockHandleOf(i))
          /\ i < Len(blocks) => blocks[i + 1].offset = NextOffset(BlockHandleOf(i))
    /\ TableBuilt =>
          /\ \A h \in FinishedHandles : HandleFits(h)
          /\ Len(blocks) > 0 =>
                NextOffset(BlockHandleOf(Len(blocks))) =
                    IF w.has_filter
                    THEN DecodeHandle(BlockAt(Footer.metaindex_handle)[1].value).handle.offset
                    ELSE Footer.metaindex_handle.offset
          /\ w.has_filter => Len(BlockAt(Footer.metaindex_handle)) = 1
          /\ w.has_filter =>
                NextOffset(DecodeHandle(BlockAt(Footer.metaindex_handle)[1].value).handle) =
                    Footer.metaindex_handle.offset
          /\ NextOffset(Footer.metaindex_handle) = Footer.index_handle.offset
          /\ NextOffset(Footer.index_handle) + kEncodedLength = FileSize(w)

\* A data block written by Add or Flush starts at FileSize() as it was when
\* the call began, and moves FileSize() by its stored length and trailer.
BlockWriteAdvances ==
    (tOp'[1] \in {"Add", "Flush"} /\ blocks' # blocks) =>
        /\ blocks'[Len(blocks')].offset = FileSize(w)
        /\ w'.pending_handle.offset = FileSize(w)
        /\ w'.pending_handle.size = w'.file[Len(w'.file) - 1].size
        /\ FileSize(w') = FileSize(w) + w'.pending_handle.size + kBlockTrailerSize

\* C34: while the builder's status is ok, FileSize() is the number of bytes
\* appended to the file; every handle a block write produced has the offset
\* FileSize() had when the write began and the length of the stored
\* contents without the 5-byte trailer; a successful block write moves the
\* offset by the contents length plus 5, so that every block starts at
\* offset + size + 5 of the block before it.
C34_OffsetAccounting ==
    /\ [](OffsetsAccount)
    /\ [][BlockWriteAdvances]_vars

\* A finished table with a filter block and two data blocks, the second
\* stored compressed.
C34_Witness ==
    /\ TableBuilt
    /\ w.has_filter
    /\ Len(blocks) >= 2
    /\ FileSize(w) = FileBytes(w.file)
    /\ w.file[ChunkIndexAt(w.file, blocks[2].offset, 1, 0)].data.enc = "snappy"
    /\ blocks[2].offset = NextOffset(BlockHandleOf(1))

(***************************************************************************)
(* Read sampling in DBIter::ParseKey (src/db/db_iter.cc).  The random      *)
(* generator is not part of the sources at hand: rnd_.Uniform(n) is any    *)
(* value of 0 .. n-1.  sampler holds bytes_until_read_sampling_ and, of    *)
(* the last ParseKey, the internal key, bytes_read, the counter before the *)
(* call, the sum of the periods drawn and the keys given to the hook.      *)
(***************************************************************************)
kReadBytesPeriod == 6   \* config::kReadBytesPeriod, scaled down

MaxDraws == 2           \* periods drawn during one ParseKey

\* What RandomCompactionPeriod() can return.
RandomCompactionPeriods == 0..(2 * kReadBytesPeriod - 1)

SampledKeys == 1..2          \* the internal keys parsed

InternalKeySizes == {9}      \* a user key of one byte and the 8-byte tag

SampledValueSizes == {0, 3, 20}

\* The while loop of ParseKey from a counter on, over the periods the
\* generator gives: the counter, the keys sampled and the periods not used.
RECURSIVE SamplingLoop(_, _, _, _, _)
SamplingLoop(counter, bytes_read, k, draws, samples) ==
    IF counter < bytes_read /\ draws # << >>
    THEN SamplingLoop(counter + draws[1], bytes_read, k, Tail(draws), Append(samples, k))
    ELSE [counter |-> counter, samples |-> samples, unused |-> Len(draws)]

RECURSIVE SumOf(_)
SumOf(L) == IF L = << >> THEN 0 ELSE L[1] + SumOf(Tail(L))

\* bytes_until_read_sampling_ -= bytes_read.
SampledCounter_NoSubtract(counter, bytes_read) == counter

SampledCounter(counter, bytes_read) == counter - bytes_read

\* The sampling part of DBIter::ParseKey on the entry with internal key k.
ParseKeySampling(s, k, bytes_read, draws) ==
    [bytes_until_read_sampling_ |->
         SampledCounter(SamplingLoop(s.bytes_until_read_sampling_, bytes_read, k,
                                     draws, << >>).counter, bytes_read),
     parsed |-> <<[key |-> k, bytes_read |-> bytes_read,
                   before |-> s.bytes_until_read_sampling_, drawn |-> SumOf(draws),
                   samples |-> SamplingLoop(s.bytes_until_read_sampling_, bytes_read, k,
                                            draws, << >>).samples]>>]

\* The constructor draws the first period.
InitSampling ==
    /\ IdleDBIter
    /\ IdleMerger
    /\ IdleTable
    /\ IdleApprox /\ IdleChildStatus /\ IdleStored /\ IdleBlockCache /\ IdleTwoLevel
    /\ IdleFilter
    /\ run = << >>
    /\ \E r \in RandomCompactionPeriods :
          sampler = [bytes_until_read_sampling_ |-> r, parsed |-> << >>]

\* ParseKey on an entry; draws are the periods the generator gives during
\* the call, as many as the loop asks for.
SParseKey ==
    /\ \E k \in SampledKeys, ksize \in InternalKeySizes, vsize \in SampledValueSizes,
          draws \in SeqsUpTo(RandomCompactionPeriods, MaxDraws) :
          /\ SamplingLoop(sampler.bytes_until_read_sampling_, ksize + vsize, k,
                          draws, << >>).unused = 0
          /\ SamplingLoop(sampler.bytes_until_read_sampling_, ksize + vsize, k,
                          draws, << >>).counter >= ksize + vsize
          /\ sampler' = ParseKeySampling(sampler, k, ksize + vsize, draws)
    /\ UNCHANGED <<run, dbVars, mVars, tVars, approx, childStatus, stored,
                   cache_, btables, heap, biters, bOp, twoVars, filterVars>>

NextSampling == SParseKey

SpecSampling == InitSampling /\ [][NextSampling]_vars

LastParse == sampler.parsed[1]

\* C35: every ParseKey takes bytes_read off the counter; RecordReadSample is
\* called, with the internal key being parsed, exactly when the counter is
\* too small for that (the subtraction would take it below zero), and the
\* counter is then left at a value of 0 .. 2*kReadBytesPeriod - 1; otherwise
\* nothing is sampled.
C35_ReadSampling ==
    (sampler # << >> /\ sampler.parsed # << >>) =>
        /\ sampler.bytes_until_read_sampling_ =
              LastParse.before + LastParse.drawn - LastParse.bytes_read
        /\ sampler.bytes_until_read_sampling_ >= 0
        /\ LastParse.before >= LastParse.bytes_read =>
              /\ LastParse.samples = << >>
              /\ LastParse.drawn = 0
        /\ LastParse.before < LastParse.bytes_read =>
              /\ LastParse.samples # << >>
              /\ \A i \in 1..Len(LastParse.samples) : LastParse.samples[i] = LastParse.key
              /\ sampler.bytes_until_read_sampling_ \in RandomCompactionPeriods

\* A parse that sampled its key twice, the first period drawn being too
\* small for the entry.
C35_Witness ==
    /\ sampler # << >>
    /\ sampler.parsed # << >>
    /\ LastParse.before < LastParse.bytes_read
    /\ Len(LastParse.samples) = 2
    /\ sampler.bytes_until_read_sampling_ > 0

\* A parse that sampled nothing.
C35_WitnessQuiet ==
    /\ sampler # << >>
    /\ sampler.parsed # << >>
    /\ LastParse.before >= LastParse.bytes_read

(***************************************************************************)
(* The calls of a DBIter step by step (src/db/db_iter.cc): a call runs     *)
(* from its entry to the first loop it meets, then one action per turn of  *)
(* a loop: the backward scan of Prev, the loops of FindNextUserEntry and   *)
(* FindPrevUserEntry, and the sampling loop of ParseKey inside them.  run  *)
(* holds the loop the call is in (pc, "idle" between calls), the call, the *)
(* locals skipping and value_type, the moves of the internal iterator made *)
(* by the call, and the DBIter as the call found it.                       *)
(***************************************************************************)
MaxStepEntries == 2    \* internal entries in the stream of the stepwise DBIter
MaxStepSequence == 2   \* their sequence numbers, and the snapshots: 0 .. MaxStepSequence

\* k.size() + iter_->value().size() of an entry: user key, 8-byte tag, value.
EntryBytes(e) == Len(e.ukey) + 8 + Len(e.value)

Looping(d, pc, skipping, value_type) ==
    [d |-> d, pc |-> pc, skipping |-> skipping, value_type |-> value_type]

CallReturns(d) == Looping(d, "idle", FALSE, kTypeDeletion)

\* One turn of the loop of FindNextUserEntry, after ParseKey's sampling.
FindNextStep(E, S, d, skipping) ==
    IF /\ EntrySeen(E[d.pos], S)
       /\ E[d.pos].type = kTypeValue
       /\ ~EntryHidden(skipping, E[d.pos].ukey, d.saved_key)
    THEN CallReturns([ParseKey(d, E[d.pos]) EXCEPT !.valid = TRUE, !.saved_key = << >>])
    ELSE LET isDel == EntrySeen(E[d.pos], S) /\ E[d.pos].type = kTypeDeletion
             d2 == IF isDel THEN [ParseKey(d, E[d.pos]) EXCEPT !.saved_key = E[d.pos].ukey]
                   ELSE ParseKey(d, E[d.pos])
         IN  IF IterValid(E, IterNext(E, d.pos))
             THEN Looping([d2 EXCEPT !.pos = IterNext(E, d.pos)], "FindNext",
                          skipping \/ isDel, kTypeDeletion)
             ELSE CallReturns([d2 EXCEPT !.pos = IterNext(E, d.pos), !.saved_key = << >>,
                                      !.valid = FALSE])

\* The end of FindPrevUserEntry, after its loop.
FindPrevEnd(d, value_type) ==
    IF value_type = kTypeDeletion
    THEN CallReturns([d EXCEPT !.valid = FALSE, !.saved_key = << >>,
                            !.saved_value = << >>, !.direction = "kForward"])
    ELSE CallReturns([d EXCEPT !.valid = TRUE])

\* One turn of the loop of FindPrevUserEntry, after ParseKey's sampling.
FindPrevStep(E, S, d, value_type) ==
    IF EntrySeen(E[d.pos], S) /\ ReachedPreviousKey(value_type, E[d.pos].ukey, d.saved_key)
    THEN FindPrevEnd(ParseKey(d, E[d.pos]), value_type)
    ELSE LET d2 == IF ~EntrySeen(E[d.pos], S) THEN ParseKey(d, E[d.pos])
                   ELSE IF E[d.pos].type = kTypeDeletion
                   THEN [d EXCEPT !.saved_key = << >>, !.saved_value = << >>]
                   ELSE [d EXCEPT !.saved_key = E[d.pos].ukey,
                                  !.saved_value = E[d.pos].value]
             vt == IF EntrySeen(E[d.pos], S) THEN E[d.pos].type ELSE value_type
         IN  IF IterValid(E, IterPrev(E, d.pos))
             THEN Looping([d2 EXCEPT !.pos = IterPrev(E, d.pos)], "FindPrev", FALSE, vt)
             ELSE FindPrevEnd([d2 EXCEPT !.pos = IterPrev(E, d.pos)], vt)

\* FindPrevUserEntry up to its loop.
FindPrevEnter(E, d) ==
    IF IterValid(E, d.pos) THEN Looping(d, "FindPrev", FALSE, kTypeDeletion)
    ELSE FindPrevEnd(d, kTypeDeletion)

\* One turn of the backward scan of Prev in forward direction.
PrevScanStep_NoMove(E, d) ==
    IF ~IterValid(E, IterPrev(E, d.pos))
    THEN CallReturns([d EXCEPT !.pos = IterPrev(E, d.pos), !.valid = FALSE,
                            !.saved_key = << >>, !.saved_value = << >>])
    ELSE IF Compare(E[IterPrev(E, d.pos)].ukey, d.saved_key) < 0
    THEN FindPrevEnter(E, [d EXCEPT !.pos = IterPrev(E, d.pos), !.direction = "kReverse"])
    ELSE Looping(d, "PrevScan", FALSE, kTypeDeletion)

PrevScanStep(E, d) ==
    IF ~IterValid(E, IterPrev(E, d.pos))
    THEN CallReturns([d EXCEPT !.pos = IterPrev(E, d.pos), !.valid = FALSE,
                            !.saved_key = << >>, !.saved_value = << >>])
    ELSE IF Compare(E[IterPrev(E, d.pos)].ukey, d.saved_key) < 0
    THEN FindPrevEnter(E, [d EXCEPT !.pos = IterPrev(E, d.pos), !.direction = "kReverse"])
    ELSE Looping([d EXCEPT !.pos = IterPrev(E, d.pos)], "PrevScan", FALSE, kTypeDeletion)

\* The calls up to their first loop.
SeekEnter(E, S, d, target) ==
    IF IterValid(E, IterSeek(E, target, PackSequenceAndType(S, kValueTypeForSeek)))
    THEN Looping([d EXCEPT !.direction = "kForward", !.saved_value = << >>,
                           !.saved_key = target \o <<PackSequenceAndType(S, kValueTypeForSeek)>>,
                           !.pos = IterSeek(E, target, PackSequenceAndType(S, kValueTypeForSeek))],
                 "FindNext", FALSE, kTypeDeletion)
    ELSE CallReturns([d EXCEPT !.direction = "kForward", !.saved_value = << >>,
                            !.saved_key = target \o <<PackSequenceAndType(S, kValueTypeForSeek)>>,
                            !.pos = 0, !.valid = FALSE])

SeekToFirstEnter(E, d) ==
    IF IterValid(E, IterSeekToFirst(E))
    THEN Looping([d EXCEPT !.direction = "kForward", !.saved_value = << >>,
                           !.pos = IterSeekToFirst(E)], "FindNext", FALSE, kTypeDeletion)
    ELSE CallReturns([d EXCEPT !.direction = "kForward", !.saved_value = << >>,
                            !.pos = IterSeekToFirst(E), !.valid = FALSE])

SeekToLastEnter(E, d) ==
    FindPrevEnter(E, [d EXCEPT !.direction = "kReverse", !.saved_value = << >>,
                               !.pos = IterSeekToLast(E)])

NextEnterAt(E, d, p) ==
    IF ~IterValid(E, p)
    THEN CallReturns([d EXCEPT !.pos = p, !.valid = FALSE, !.saved_key = << >>])
    ELSE Looping([d EXCEPT !.pos = p], "FindNext", TRUE, kTypeDeletion)

NextEnter(E, d) ==
    IF d.direction = "kReverse"
    THEN NextEnterAt(E, [d EXCEPT !.direction = "kForward"],
                     IF ~IterValid(E, d.pos) THEN IterSeekToFirst(E) ELSE IterNext(E, d.pos))
    ELSE NextEnterAt(E, [d EXCEPT !.saved_key = E[d.pos].ukey], IterNext(E, d.pos))

PrevEnter(E, d) ==
    IF d.direction = "kForward"
    THEN Looping([d EXCEPT !.saved_key = E[d.pos].ukey], "PrevScan", FALSE, kTypeDeletion)
    ELSE FindPrevEnter(E, d)

\* The moves of the internal iterator a step from d to e makes: none or one.
Moved(d, e) == IF d.pos # e.pos THEN 1 ELSE 0

NoRun == [pc |-> "idle", op |-> <<"none">>, skipping |-> FALSE,
          value_type |-> kTypeDeletion, moves |-> 0, start |-> NewDBIter]

InitDBIterSteps ==
    /\ entries \in {E \in Streams : /\ Len(E) <= MaxStepEntries
                                     /\ \A i \in 1..Len(E) : E[i].seq <= MaxStepSequence}
    /\ sequence_ \in 0..MaxStepSequence
    /\ dbi = NewDBIter
    /\ dbiBase = << >>
    /\ dbOp = <<"new">>
    /\ scan = "none" /\ out = << >> /\ fwdDone = << >> /\ revDone = << >> /\ vcur = 0
    /\ IdleMerger
    /\ IdleTable
    /\ IdleApprox /\ IdleChildStatus /\ IdleStored /\ IdleBlockCache /\ IdleTwoLevel
    /\ IdleFilter
    /\ run = NoRun
    /\ \E r \in RandomCompactionPeriods :
          sampler = [bytes_until_read_sampling_ |-> r, parsed |-> << >>]

StepFrame ==
    UNCHANGED <<entries, sequence_, dbiBase, scan, out, fwdDone, revDone, vcur,
                mVars, tVars, approx, childStatus, stored, cache_, btables, heap, biters,
                bOp, twoVars, filterVars>>

\* A call enters: res is the call up to its first loop, moves the moves of
\* the internal iterator it made so far.
Enter(op, res, moves) ==
    /\ dbi' = res.d
    /\ dbOp' = op
    /\ run' = [pc |-> res.pc, op |-> op, skipping |-> res.skipping,
               value_type |-> res.value_type, moves |-> moves, start |-> dbi]
    /\ UNCHANGED sampler
    /\ StepFrame

\* A turn of a loop: res is the turn.
Turn(res) ==
    /\ dbi' = res.d
    /\ run' = [run EXCEPT !.pc = res.pc, !.skipping = res.skipping,
                          !.value_type = res.value_type,
                          !.moves = @ + Moved(dbi, res.d)]
    /\ UNCHANGED dbOp
    /\ StepFrame

SSeekToFirst ==
    /\ run.pc = "idle"
    /\ Enter(<<"SeekToFirst">>, SeekToFirstEnter(entries, dbi), 1)

SSeekToLast ==
    /\ run.pc = "idle"
    /\ Enter(<<"SeekToLast">>, SeekToLastEnter(entries, dbi), 1)

SSeek ==
    /\ run.pc = "idle"
    /\ \E target \in UserKeys :
          Enter(<<"Seek", target>>, SeekEnter(entries, sequence_, dbi, target), 1)

SNext ==
    /\ run.pc = "idle"
    /\ dbi.valid
    /\ Enter(<<"Next">>, NextEnter(entries, dbi), 1)

SPrev ==
    /\ run.pc = "idle"
    /\ dbi.valid
    /\ Enter(<<"Prev">>, PrevEnter(entries, dbi), 0)

\* ParseKey has to sample before it can take the entry's bytes.
MustSample ==
    /\ run.pc \in {"FindNext", "FindPrev"}
    /\ sampler.bytes_until_read_sampling_ < EntryBytes(entries[dbi.pos])

\* One turn of the sampling loop of ParseKey.
SSample ==
    /\ MustSample
    /\ \E r \in RandomCompactionPeriods :
          sampler' = [sampler EXCEPT !.bytes_until_read_sampling_ = @ + r]
    /\ UNCHANGED <<dbi, dbOp, run>>
    /\ StepFrame

\* The rest of ParseKey.
Parsed ==
    sampler' = [sampler EXCEPT !.bytes_until_read_sampling_ =
                    SampledCounter(@, EntryBytes(entries[dbi.pos]))]

SFindNext ==
    /\ run.pc = "FindNext"
    /\ ~MustSample
    /\ Parsed
    /\ Turn(FindNextStep(entries, sequence_, dbi, run.skipping))

SFindPrev ==
    /\ run.pc = "FindPrev"
    /\ ~MustSample
    /\ Parsed
    /\ Turn(FindPrevStep(entries, sequence_, dbi, run.value_type))

SPrevScan ==
    /\ run.pc = "PrevScan"
    /\ UNCHANGED sampler
    /\ Turn(PrevScanStep(entries, dbi))

NextDBIterSteps ==
    \/ SSeekToFirst
    \/ SSeekToLast
    \/ SSeek
    \/ SNext
    \/ SPrev
    \/ SSample
    \/ SFindNext
    \/ SFindPrev
    \/ SPrevScan

\* A loop that can take a turn takes it; the generator does not give the
\* period 0 for ever.
SpecDBIterSteps ==
    /\ InitDBIterSteps
    /\ [][NextDBIterSteps]_vars
    /\ WF_vars(SSample)
    /\ WF_vars(SFindNext)
    /\ WF_vars(SFindPrev)
    /\ WF_vars(SPrevScan)

\* What the call in run.op makes of the DBIter it found, as a whole.
WholeCall ==
    CASE run.op[1] = "SeekToFirst" -> DBIterSeekToFirst(entries, sequence_, run.start)
      [] run.op[1] = "SeekToLast" -> DBIterSeekToLast(entries, sequence_, run.start)
      [] run.op[1] = "Seek" -> DBIterSeek(entries, sequence_, run.start, run.op[2])
      [] run.op[1] = "Next" -> DBIterNext(entries, sequence_, run.start)
      [] run.op[1] = "Prev" -> DBIterPrev(entries, sequence_, run.start)

\* A call makes no more moves of the internal iterator than the stream has
\* entries, twice over for a Prev that scans back and then collapses.
MovesBounded == run.moves <= 2 * Len(entries) + 1

\* A call that has returned has done what the call does as a whole, and
\* left the iterator invalid or valid on a visible entry.
ReturnsRight ==
    (run.pc = "idle" /\ run.op # <<"none">>) =>
        /\ dbi = WholeCall
        /\ dbi.valid =>
              /\ IsVisible(entries, sequence_, DBIterKey(entries, dbi))
              /\ DBIterValue(entries, dbi) =
                    entries[NewestSeen(entries, sequence_, DBIterKey(entries, dbi))].value

\* C37: over every finite stream of internal entries every call of a DBIter
\* (Seek, SeekToFirst, SeekToLast, Next, Prev) returns, after a number of
\* moves of the internal iterator bounded by the length of the stream, the
\* backward scan of Prev, the loops of FindNextUserEntry and
\* FindPrevUserEntry and the sampling loop of ParseKey included, and leaves
\* the iterator valid on a visible entry or invalid.
C37_Termination ==
    /\ [](MovesBounded /\ ReturnsRight)
    /\ (run.pc # "idle") ~> (run.pc = "idle")

\* A Prev that scanned back over its own key, collapsed the entries of the
\* key before it and returned valid.
C37_Witness ==
    /\ run # << >>
    /\ run.pc = "idle"
    /\ run.op = <<"Prev">>
    /\ run.start.direction = "kForward"
    /\ run.moves >= 2
    /\ dbi.valid
====
